---- MODULE Spec2Model ----
(***************************************************************************)
(* Commons Depicts Analyzer: the background analysis jobs of               *)
(* backend/main.py (job registry, worker thread, cancellation, progress    *)
(* polling), the analysis pipeline they drive, the retry wrapper of        *)
(* backend/api.py and the files table of backend/database.py.              *)
(*                                                                         *)
(* Every step of a thread that touches shared state (the job registry      *)
(* under analysis_lock, the files table, the network) is one action; the   *)
(* registry lock is released between two such steps, exactly as in the     *)
(* code, so other threads may run in between.                              *)
(***************************************************************************)
EXTENDS Integers, Sequences, FiniteSets, TLC

\* ------------------------------------------------------------- bounds ----
\* Largest number of files the remote category holds.
MaxItems == 3
\* Files the listing service returns per page (cmlimit, scaled down).
PageLimit == 2
\* Transient transport failures the network may inject into one retried call.
MaxFaults == 4
\* Largest max_retries a wrapped call is exercised with.
MaxRetries == 3
\* _LABEL_CACHE_MAX, scaled down.
LABEL_CACHE_MAX == 3
\* _LABEL_CACHE_TTL, scaled down to clock ticks.
LABEL_CACHE_TTL == 1
\* Ticks the clock makes.
MaxClock == 2
\* _POOL_SIZE, scaled down.
POOL_SIZE == 2
\* Largest listing a job record handed to _compute_percent is about.
MaxTotal == 50
\* Identifiers per wbgetentities request (50 in resolve_labels), scaled down.
LABEL_BATCH == 2

\* ---------------------------------------------------------- constants ----
\* @retry_on_failure(max_retries=3, base_delay=1.0) on fetch_category_files;
\* delays are in milliseconds.
FETCH_MAX_RETRIES == 3
FETCH_BASE_DELAY == 1000
\* @retry_on_failure(max_retries=2, base_delay=0.5) on check_depicts and on
\* resolve_labels.
ITEM_MAX_RETRIES == 2
ITEM_BASE_DELAY == 500

\* ------------------------------------------------------------- values ----
None == <<>>
Some(x) == <<x>>

JobIds == {"j1", "j2"}
\* Job ids for which start_analysis_job is called (uuid4 tokens).
Started == {"j1"}
Languages == {"en"}
Files == 1..MaxItems
\* A category name is its text cut into tokens, so that
\* startswith("Category:") is a test on the first token.
PREFIX == "Category:"
CategoryNames == {<<"Cats">>, <<PREFIX, "Cats">>}
TheCategory == <<PREFIX, "Cats">>
OtherCategory == <<PREFIX, "Dogs">>

Terminal == {"done", "error", "cancelled"}
NoJob == [status |-> "absent"]

Range(s) == {s[k] : k \in 1..Len(s)}
Min(a, b) == IF a < b THEN a ELSE b

\* Sequences over S of length at most n without repetition: what the
\* listing service returns for a category (each member page once).
Listings(S, n) ==
    {s \in UNION {[1..k -> S] : k \in 0..n} :
        \A a, b \in 1..Len(s) : a # b => s[a] # s[b]}

\* ", ".join(label_list): the display string as its pieces.
RECURSIVE Join(_)
Join(labels) ==
    IF Len(labels) = 0 THEN <<>>
    ELSE IF Len(labels) = 1 THEN <<labels[1]>>
    ELSE <<labels[1], ", ">> \o Join(Tail(labels))

\* if not category_name.startswith("Category:"): prepend it.
Normalize(name) ==
    IF Len(name) >= 1 /\ name[1] = PREFIX THEN name ELSE <<PREFIX>> \o name

\* -------------------------------------------------------------- state ----
VARIABLES
    jobs,        \* analysis_jobs: job id -> record (NoJob: no such key)
    pc,          \* where each job's worker thread is
    stage,       \* which progress_hook call the worker is in
    wcat,        \* the worker's normalized category_name
    files,       \* the worker's local `files` (result of the listing)
    idx,         \* the worker's loop position, 1-based (i + 1)
    pending,     \* the row the worker is about to insert
    outcomes,    \* how each processed item's check and resolve ended
    netlog,      \* invocations and sleeps of the worker's latest retried call
    result,      \* analyze_category's return value
    jtotal,      \* the value job_total() returned to the worker
    db,          \* the files table: a set of rows
    commons,     \* the remote category: whether it exists, its members
    faults,      \* transport failures the network may inject into one call
    cancel_ok,   \* how many cancel_job calls returned True, per job
    cancel_at,   \* where the worker was when cancel_job last returned True
    stale,       \* whether the worker's clear deleted a row of a file that
                 \* the remote category no longer lists
    poll,        \* the api_progress request in flight: its position, its
                 \* reference to the job's dict, the payload read so far
    seen,        \* the values the polled record has had since the poll's
                 \* lookup
    rt,          \* one call of a function wrapped by retry_on_failure: its
                 \* parameters, what the function does on each attempt, the
                 \* loop's position, the invocations and sleeps so far
    label_cache, \* _label_cache: entries (key, value, timestamp) in the
                 \* OrderedDict's order, oldest position first
    cache_lock,  \* _label_cache_lock: the thread holding it, or None
    clock,       \* time.time()
    ct,          \* the threads calling _cache_get / _cache_set: position,
                 \* arguments, locals, return value, and what was known
                 \* when the thread took the lock
    cghost,      \* history of the cache: per key its latest set still
                 \* stored, the keys by last touch, the last key evicted,
                 \* and the cache a one-at-a-time execution would hold
    pool,        \* the connection pool: the idle queue _pool, the holder
                 \* of _pool_lock, _pool_created, and the connections ever
                 \* created, broken and closed, and how the last
                 \* caller's block ended
    pt,          \* the threads using _get_connection: position and the
                 \* local `conn`
    pjob,        \* the job dict of the last _compute_percent call, or None
    percent,     \* what that call returned, or None
    hist,        \* per job, the items its loop has checked and inserted,
                 \* in the order it did so
    lr,          \* the last resolve_labels call: its arguments (and a
                 \* bit that flips with every call), the identifiers it
                 \* found cached, the remote calls it made,
                 \* what it returned and when, and the remote calls of a
                 \* second call made at once with the same arguments
    analysis_lock, \* analysis_lock: the thread holding it, or None
    th           \* threads running the application's code paths: the
                 \* statements of the path taken and the position in it

vars == <<jobs, pc, stage, wcat, files, idx, pending, outcomes, netlog,
          result, jtotal, db, commons, faults, cancel_ok, cancel_at, stale,
          poll, seen, rt, label_cache, cache_lock, clock, ct, cghost,
          pool, pt, pjob, percent, hist, lr, analysis_lock, th>>

workerVars == <<pc, stage, wcat, files, idx, pending, outcomes, netlog,
                result, jtotal>>
\* The library components exercised on their own.
cacheVars == <<label_cache, cache_lock, clock, ct, cghost>>
poolVars == <<pool, pt>>
percentVars == <<pjob, percent>>
labelVars == <<lr>>
\* The functions exercised on their own, left alone by the components.
lockVars == <<analysis_lock, th>>
sideVars == <<percentVars, labelVars, lockVars>>
libVars == <<rt, cacheVars, poolVars, sideVars>>
histVars == <<hist>>
envVars == <<commons, faults, libVars, histVars>>
cancelVars == <<cancel_ok, cancel_at>>
\* What no step of a worker thread or of cancel_job touches.
otherVars == <<envVars, poll>>

\* History of the record a poll in flight refers to: every value the record
\* takes while the poll runs is remembered.
Watch ==
    seen' = IF poll.pc # "idle" /\ poll.job \in JobIds
            THEN seen \cup {jobs'[poll.job]}
            ELSE seen

\* ------------------------------------------------- retry_on_failure ------
\* The wrapper's loop over `attempt`.  results[a + 1] is what the wrapped
\* function does on attempt a: a record whose kind is "RequestException"
\* for a transport failure and anything else for a return value or an
\* exception of another class.  The answer is the value returned or the
\* exception raised to the caller, the number of invocations and the delays
\* slept, in order.
\* The wrapper with `except Exception` in place of
\* `except requests.exceptions.RequestException`: every error is retried.
RECURSIVE RetryLoopAnyError(_, _, _, _, _)
RetryLoopAnyError(max_retries, base_delay, results, attempt, sleeps) ==
    LET r == results[attempt + 1] IN
    IF r.kind \in {"files", "value"}
    THEN [ret |-> r, calls |-> attempt + 1, sleeps |-> sleeps]
    ELSE IF attempt < max_retries
    THEN RetryLoopAnyError(max_retries, base_delay, results, attempt + 1,
                           Append(sleeps, base_delay * (2 ^ attempt)))
    ELSE [ret |-> r, calls |-> attempt + 1, sleeps |-> sleeps]

RECURSIVE RetryLoop(_, _, _, _, _)
RetryLoop(max_retries, base_delay, results, attempt, sleeps) ==
    LET r == results[attempt + 1] IN
    IF r.kind # "RequestException"
    THEN [ret |-> r, calls |-> attempt + 1, sleeps |-> sleeps]
    ELSE IF attempt < max_retries
    THEN RetryLoop(max_retries, base_delay, results, attempt + 1,
                   Append(sleeps, base_delay * (2 ^ attempt)))
    ELSE [ret |-> r, calls |-> attempt + 1, sleeps |-> sleeps]

retry_on_failure(max_retries, base_delay, results) ==
    RetryLoop(max_retries, base_delay, results, 0, <<>>)

\* --------------------------------------------- fetch_category_files ------
\* One listing request: the page that starts at member `cursor`, and the
\* continuation token (the next cursor) when more members follow.
ListingPage(members, cursor) ==
    LET last == Min(cursor + PageLimit - 1, Len(members)) IN
    [items |-> SubSeq(members, cursor, last),
     continue |-> IF last < Len(members) THEN Some(last + 1) ELSE None]

\* A loop that stops after its first page, whatever the page says.
FetchFirstPage(members, cursor, acc, nreq, failAt) ==
    IF nreq + 1 = failAt
    THEN [kind |-> "RequestException", files |-> <<>>,
          msg |-> "transport", requests |-> nreq + 1]
    ELSE [kind |-> "files", files |-> acc \o ListingPage(members, cursor).items,
          msg |-> "", requests |-> nreq + 1]

\* The `while True` loop.  nreq counts the requests of this invocation
\* (the existence query included); the request numbered failAt raises a
\* transport error.
RECURSIVE FetchPages(_, _, _, _, _)
FetchPages(members, cursor, acc, nreq, failAt) ==
    IF nreq + 1 = failAt
    THEN [kind |-> "RequestException", files |-> <<>>,
          msg |-> "transport", requests |-> nreq + 1]
    ELSE LET page == ListingPage(members, cursor) IN
         IF page.continue # None
         THEN FetchPages(members, page.continue[1], acc \o page.items,
                         nreq + 1, failAt)
         ELSE [kind |-> "files", files |-> acc \o page.items,
               msg |-> "", requests |-> nreq + 1]

\* validate_category_exists: a transport error is caught and reported as
\* (False, "Network error ..."), a missing page as (False, "... does not
\* exist ...").
validate_category_exists(remote, failAt) ==
    IF failAt = 1
    THEN [exists |-> FALSE, msg |-> "Network error checking category"]
    ELSE IF ~remote.exists
    THEN [exists |-> FALSE, msg |-> "does not exist on Wikimedia Commons"]
    ELSE [exists |-> TRUE, msg |-> ""]

\* One invocation of the undecorated fetch_category_files.  failAt = 0: no
\* request of this invocation fails; failAt = q: its q-th request fails.
FetchAttempt(remote, failAt) ==
    LET v == validate_category_exists(remote, failAt) IN
    IF ~v.exists
    THEN [kind |-> "ValueError", files |-> <<>>, msg |-> v.msg, requests |-> 1]
    ELSE FetchPages(remote.members, 1, <<>>, 1, failAt)

RECURSIVE SumRequests(_, _)
SumRequests(results, n) ==
    IF n = 0 THEN 0 ELSE results[n].requests + SumRequests(results, n - 1)

\* The decorated fetch_category_files under a script of failures, one entry
\* per attempt.
fetch_category_files(remote, script) ==
    LET results == [a \in 1..(FETCH_MAX_RETRIES + 1) |->
                        FetchAttempt(remote, script[a])]
        run == retry_on_failure(FETCH_MAX_RETRIES, FETCH_BASE_DELAY, results)
    IN  [ret |-> run.ret, calls |-> run.calls, sleeps |-> run.sleeps,
         requests |-> SumRequests(results, run.calls)]

\* Requests one invocation makes when none fails.
RequestsOf(remote) ==
    IF ~remote.exists THEN 1
    ELSE 1 + (IF Len(remote.members) = 0 THEN 1
              ELSE (Len(remote.members) + PageLimit - 1) \div PageLimit)

\* The failure scripts the network can play against one call: an entry is
\* 0 or the number of a request the invocation makes; entries past the
\* attempt that ends the call are 0; at most `budget` entries are failures.
Scripts(remote, budget) ==
    {s \in [1..(FETCH_MAX_RETRIES + 1) -> 0..RequestsOf(remote)] :
        /\ Cardinality({a \in DOMAIN s : s[a] # 0}) <= budget
        /\ \A a \in DOMAIN s :
              s[a] # 0 => \A b \in 1..(a - 1) : s[b] >= 2}

\* ------------------------------------------------------ files table ------
Row(f, cat, depicts, has) ==
    [file_name |-> f, category |-> cat, depicts |-> depicts, has_depicts |-> has]

\* INSERT ... ON CONFLICT(file_name, category) DO UPDATE.
insert_file(table, f, cat, depicts, has) ==
    {r \in table : ~(r.file_name = f /\ r.category = cat)}
        \cup {Row(f, cat, depicts, has)}

\* A clear that deletes nothing.
clear_nothing(table, cat) == table

\* DELETE FROM files WHERE category = ?
clear_category(table, cat) == {r \in table : r.category # cat}

\* The statistics query without its WHERE clause.
get_statistics_unfiltered(table, cat) ==
    [total |-> Cardinality(table),
     with_depicts |-> Cardinality({r \in table : r.has_depicts}),
     without_depicts |-> Cardinality({r \in table : ~r.has_depicts})]

\* COUNT(*), SUM(has_depicts = 1), SUM(has_depicts = 0) WHERE category = ?
get_statistics(table, cat) ==
    LET rows == {r \in table : r.category = cat} IN
    [total |-> Cardinality(rows),
     with_depicts |-> Cardinality({r \in rows : r.has_depicts}),
     without_depicts |-> Cardinality({r \in rows : ~r.has_depicts})]

\* ORDER BY has_depicts DESC, file_name ASC
RowBefore(a, b) ==
    \/ a.has_depicts /\ ~b.has_depicts
    \/ a.has_depicts = b.has_depicts /\ a.file_name < b.file_name

RECURSIVE Sorted(_)
Sorted(rows) ==
    IF rows = {} THEN <<>>
    ELSE LET first == CHOOSE a \in rows : \A b \in rows \ {a} : RowBefore(a, b)
         IN  <<first>> \o Sorted(rows \ {first})

\* SELECT file_name, depicts, has_depicts ... WHERE category = ?
get_files_by_category(table, cat) ==
    LET rows == {[file_name |-> r.file_name, depicts |-> r.depicts,
                  has_depicts |-> r.has_depicts] :
                     r \in {x \in table : x.category = cat}}
    IN  Sorted(rows)

\* --------------------------------------------------- the job registry ----
BlankJob ==
    [status |-> "absent", phase |-> "absent", category |-> None,
     language |-> "", processed |-> 0, total |-> None, message |-> "",
     error |-> None, updated_at |-> 0]

\* _set_job: merge the updates into the record (a new one when the id is
\* unknown) and stamp updated_at.  Time is a count of stamps: every stamp is
\* later than the one before.
set_job(job, updates) ==
    LET base == IF job = NoJob THEN BlankJob ELSE job
        merged == [f \in DOMAIN base |->
                     IF f \in DOMAIN updates THEN updates[f] ELSE base[f]]
    IN  [merged EXCEPT !.updated_at = base.updated_at + 1]

\* is_job_cancelled
is_job_cancelled(job) == job # NoJob /\ job.status = "cancelled"

\* What cancel_job returns.
CancelReturns(job) == job # NoJob /\ job.status \notin Terminal

\* The record cancel_job leaves behind.
CancelledJob(job) ==
    IF ~CancelReturns(job) THEN job
    ELSE [job EXCEPT !.status = "cancelled", !.phase = "cancelled",
                     !.message = "Cancelled by user",
                     !.updated_at = job.updated_at + 1]

\* ---- Python float arithmetic (IEEE-754 binary64, round to nearest even) ----
\* A float is [m, e]: a significand of MANT bits, most significant first
\* and leading bit 1, whose first bit weighs 2^e; 0.0 has no significand.
\* Numbers wider than a machine int are bit sequences, worked on in limbs.
\* Bits of the significand of a Python float.
MANT == 53
\* Bits of a limb, and limbs that hold a significand.
LIMB == 16
LIMBS == 4
\* Places kept for the integer part of an exact quotient, and bits of its
\* fraction worked out per division step and steps made, before rounding:
\* enough for processed / total < 2^INT_W, total < 2^10 and MANT significant
\* bits after the quotient's leading zeros.
INT_W == 8
CHUNK == 20
\* Places a significand grows by when multiplied by 100 (100 < 2^7).
MUL_W == 7

Zeros(n) == [i \in 1..n |-> 0]

\* 0.0
FloatZero == [m |-> <<>>, e |-> 0]

\* The w low bits of the integer n, most significant first.
IntBits(n, w) == [i \in 1..w |-> (n \div (2 ^ (w - i))) % 2]

\* The integer spelled by the four bits of b from place i.
Nibble(b, i) == 8 * b[i] + 4 * b[i + 1] + 2 * b[i + 2] + b[i + 3]

\* The integer spelled by the LIMB bits of b from place i.
Limb(b, i) ==
    4096 * Nibble(b, i) + 256 * Nibble(b, i + 4) + 16 * Nibble(b, i + 8)
        + Nibble(b, i + 12)

\* An exact value [bits, top, sticky] (bits[1] weighs 2^top; sticky: there
\* is a non-zero part below the last bit) without its leading zeros.
DropZeros(x) ==
    IF \A i \in 1..Len(x.bits) : x.bits[i] = 0
    THEN [x EXCEPT !.bits = <<>>]
    ELSE LET k == CHOOSE i \in 1..Len(x.bits) :
                      x.bits[i] = 1 /\ \A h \in 1..(i - 1) : x.bits[h] = 0
         IN  [x EXCEPT !.bits = SubSeq(@, k, Len(@)), !.top = @ - (k - 1)]

\* A significand plus one unit in the last place (not all ones).
Increment(m) ==
    LET k == CHOOSE i \in 1..Len(m) :
                 m[i] = 0 /\ \A h \in (i + 1)..Len(m) : m[h] = 1
    IN  [i \in 1..Len(m) |-> IF i < k THEN m[i] ELSE IF i = k THEN 1 ELSE 0]

\* The float nearest to an exact value, ties to the even significand.
RoundNearestEven(x0) ==
    LET x == DropZeros(x0)
        n == Len(x.bits)
        head == SubSeq(x.bits, 1, MANT)
        rest == x.sticky \/ \E i \in (MANT + 2)..n : x.bits[i] = 1
        up == x.bits[MANT + 1] = 1 /\ (rest \/ head[MANT] = 1)
    IN  IF n = 0 THEN FloatZero
        ELSE IF n <= MANT THEN [m |-> x.bits \o Zeros(MANT - n), e |-> x.top]
        ELSE IF ~up THEN [m |-> head, e |-> x.top]
        ELSE IF \A i \in 1..MANT : head[i] = 1
        THEN [m |-> <<1>> \o Zeros(MANT - 1), e |-> x.top + 1]
        ELSE [m |-> Increment(head), e |-> x.top]

\* One step of the long division r / t: the next CHUNK bits of the
\* quotient and the remainder they leave.
DivStep(r, t) ==
    [q |-> (r * (2 ^ CHUNK)) \div t, r |-> (r * (2 ^ CHUNK)) % t]

\* processed / total: true division of two ints, correctly rounded.
float_div(p, t) ==
    LET s1 == DivStep(p % t, t)
        s2 == DivStep(s1.r, t)
        s3 == DivStep(s2.r, t)
        s4 == DivStep(s3.r, t)
    IN  RoundNearestEven(
            [bits |-> IntBits(p \div t, INT_W) \o IntBits(s1.q, CHUNK)
                          \o IntBits(s2.q, CHUNK) \o IntBits(s3.q, CHUNK)
                          \o IntBits(s4.q, CHUNK),
             top |-> INT_W - 1,
             sticky |-> s4.r # 0])

\* x * 100 for a float x, correctly rounded: the significand, right-aligned
\* in LIMBS limbs, is multiplied limb by limb from the low end.
float_times_100(x) ==
    IF x = FloatZero THEN FloatZero
    ELSE LET b == Zeros(LIMB * LIMBS - MANT) \o x.m
             v4 == Limb(b, 3 * LIMB + 1) * 100
             v3 == Limb(b, 2 * LIMB + 1) * 100 + v4 \div (2 ^ LIMB)
             v2 == Limb(b, LIMB + 1) * 100 + v3 \div (2 ^ LIMB)
             v1 == Limb(b, 1) * 100 + v2 \div (2 ^ LIMB)
         IN  RoundNearestEven(
                 [bits |-> IntBits(v1 \div (2 ^ LIMB), MUL_W)
                               \o IntBits(v1 % (2 ^ LIMB), LIMB)
                               \o IntBits(v2 % (2 ^ LIMB), LIMB)
                               \o IntBits(v3 % (2 ^ LIMB), LIMB)
                               \o IntBits(v4 % (2 ^ LIMB), LIMB),
                  top |-> x.e + (LIMB * LIMBS - MANT) + MUL_W,
                  sticky |-> FALSE])

\* int(x) for a float 0 <= x < 2^LIMB: the fraction is cut off.
py_int(x) ==
    IF x = FloatZero THEN 0
    ELSE IF x.e < 0 THEN 0
    ELSE Limb(Zeros(LIMB - (x.e + 1)) \o SubSeq(x.m, 1, x.e + 1), 1)

\* _compute_percent
compute_percent(job) ==
    IF job.total # None /\ job.total[1] # 0
    THEN Min(100, py_int(float_times_100(float_div(job.processed,
                                                   job.total[1]))))
    ELSE IF job.phase = "fetching" THEN 5
    ELSE IF job.phase = "finalizing" THEN 95
    ELSE 0

\* The hook dicts with the loop's call passing i in place of i + 1.
HookInfoZeroBased(st, k, total) ==
    CASE st = "fetching" ->
           [phase |-> "fetching", message |-> "Fetching files from category",
            processed |-> 0, total |-> None]
      [] st = "checking" ->
           [phase |-> "checking", message |-> "Checking depicts statements",
            processed |-> 0, total |-> Some(total)]
      [] st = "item" ->
           [phase |-> "checking", message |-> "Checking depicts statements",
            processed |-> k - 1, total |-> Some(total)]
      [] st = "finalizing" ->
           [phase |-> "finalizing", message |-> "Finalizing results",
            processed |-> total, total |-> Some(total)]

\* The hook dicts with the loop's call passing i + 2 in place of i + 1.
HookInfoOneAhead(st, k, total) ==
    CASE st = "fetching" ->
           [phase |-> "fetching", message |-> "Fetching files from category",
            processed |-> 0, total |-> None]
      [] st = "checking" ->
           [phase |-> "checking", message |-> "Checking depicts statements",
            processed |-> 0, total |-> Some(total)]
      [] st = "item" ->
           [phase |-> "checking", message |-> "Checking depicts statements",
            processed |-> k + 1, total |-> Some(total)]
      [] st = "finalizing" ->
           [phase |-> "finalizing", message |-> "Finalizing results",
            processed |-> total, total |-> Some(total)]

\* The dict each progress_hook call of analyze_category passes.
HookInfo(st, k, total) ==
    CASE st = "fetching" ->
           [phase |-> "fetching", message |-> "Fetching files from category",
            processed |-> 0, total |-> None]
      [] st = "checking" ->
           [phase |-> "checking", message |-> "Checking depicts statements",
            processed |-> 0, total |-> Some(total)]
      [] st = "item" ->
           [phase |-> "checking", message |-> "Checking depicts statements",
            processed |-> k, total |-> Some(total)]
      [] st = "finalizing" ->
           [phase |-> "finalizing", message |-> "Finalizing results",
            processed |-> total, total |-> Some(total)]

\* ------------------------------------------------------- api_progress ----
\* No request in flight.
NoPoll == [pc |-> "idle", job |-> "", payload |-> <<>>]

\* The reads api_progress makes of the job's dict once it has the
\* reference, in order: the payload's fields, then _compute_percent's.
\* (category is never written after creation and is read with status.)
PollReads ==
    <<"status", "phase", "processed", "total", "message", "error",
      "pct_total", "pct_processed", "pct_phase">>

\* The key of the dict a read looks up.
ReadKey(r) ==
    CASE r = "pct_total" -> "total"
      [] r = "pct_processed" -> "processed"
      [] r = "pct_phase" -> "phase"
      [] OTHER -> r

\* The payload's percent: _compute_percent over the values it read.
PayloadPercent(pl) ==
    compute_percent([total |-> pl.pct_total, processed |-> pl.pct_processed,
                     phase |-> pl.pct_phase])

\* A record's values for the fields a response carries.
View(rec) ==
    [status |-> rec.status, phase |-> rec.phase, processed |-> rec.processed,
     total |-> rec.total, message |-> rec.message, error |-> rec.error]

\* The response's values for the same fields.
PayloadView(pl) ==
    [status |-> pl.status, phase |-> pl.phase, processed |-> pl.processed,
     total |-> pl.total, message |-> pl.message, error |-> pl.error]

\* No wrapped call in progress.
NoRetry ==
    [pc |-> "idle", max_retries |-> 0, base_delay |-> 0, results |-> <<>>,
     attempt |-> 0, last_exception |-> None, trace |-> <<>>, ret |-> None]

\* ------------------------------------------------------ label cache -----
CacheThreads == {"t1", "t2"}
CacheKeys == 1..(LABEL_CACHE_MAX + 1)
CacheValues == {"a", "b"}

KeysOf(c) == [i \in 1..Len(c) |-> c[i].key]
Has(c, k) == \E i \in 1..Len(c) : c[i].key = k
EntryOf(c, k) == c[CHOOSE i \in 1..Len(c) : c[i].key = k]

\* _label_cache.get(cache_key)
Lookup(c, k) == IF Has(c, k) THEN Some(EntryOf(c, k)) ELSE None

\* _label_cache.pop(cache_key, None)
Without(c, k) == SelectSeq(c, LAMBDA e : e.key # k)

\* _label_cache[cache_key] = (value, now): a key already present keeps its
\* position, a new key goes last.
Store(c, k, v, now) ==
    LET new == [key |-> k, value |-> v, timestamp |-> now] IN
    IF Has(c, k)
    THEN [i \in 1..Len(c) |-> IF c[i].key = k THEN new ELSE c[i]]
    ELSE Append(c, new)

\* A move_to_end that leaves the order as it is.
MoveNowhere(c, k) == c

\* _label_cache.move_to_end(cache_key)
MoveToEnd(c, k) == IF Has(c, k) THEN Append(Without(c, k), EntryOf(c, k)) ELSE c

\* _label_cache.popitem(last=False)
PopFirst(c) == Tail(c)

\* An expiry test that already fires at an age of exactly the TTL.
ExpiredAtTTL(now, timestamp) == now - timestamp >= LABEL_CACHE_TTL

\* now - timestamp > _LABEL_CACHE_TTL
Expired(now, timestamp) == now - timestamp > LABEL_CACHE_TTL

\* A loop test that tolerates one entry too many.
OverCapacityByTwo(c) == Len(c) > LABEL_CACHE_MAX + 1

\* len(_label_cache) > _LABEL_CACHE_MAX
OverCapacity(c) == Len(c) > LABEL_CACHE_MAX

\* while len(_label_cache) > _LABEL_CACHE_MAX: popitem(last=False)
RECURSIVE EvictLoop(_)
EvictLoop(c) == IF OverCapacity(c) THEN EvictLoop(PopFirst(c)) ELSE c

\* The locked part of _cache_get run in one piece: the cache it leaves and
\* the value it returns.
cache_get(c, k, now) ==
    LET entry == Lookup(c, k) IN
    IF entry = None THEN [cache |-> c, ret |-> None]
    ELSE IF Expired(now, entry[1].timestamp)
    THEN [cache |-> Without(c, k), ret |-> None]
    ELSE [cache |-> MoveToEnd(c, k), ret |-> Some(entry[1].value)]

\* The locked part of _cache_set run in one piece.
cache_set(c, k, v, now) ==
    [cache |-> EvictLoop(MoveToEnd(Store(c, k, v, now), k)), ret |-> None]

\* A thread that has not called the cache yet.
NoCacheCall ==
    [pc |-> "idle", op |-> "none", key |-> 0, value |-> "", now |-> 0,
     entry |-> None, ret |-> None, isnew |-> FALSE, was |-> None,
     before |-> <<>>, expect |-> None]

NoCacheHistory ==
    [latest |-> [k \in CacheKeys |-> None], recent |-> <<>>, victim |-> 0,
     shadow |-> <<>>]

\* --------------------------------------------------- resolve_labels -----
QIDs == {"Q1", "Q2", "Q3"}
\* The language labels are asked in.
LabelLanguages == {"fr"}
\* Two languages the same identifiers are asked in.
BothLanguages == {"fr", "en"}

\* The lists of identifiers check_depicts can hand over, one identifier per
\* depicts statement of the file (so one can occur twice): every list of up
\* to two identifiers, and the lists of three different ones.
QidLists ==
    {s \in UNION {[1..n -> QIDs] : n \in 0..3} :
        Len(s) = 3 => Cardinality(Range(s)) = 3}

\* The lists of one identifier.
SingleQids == [1..1 -> QIDs]

\* Wikidata: the languages each entity has a label in.
WikidataLabels ==
    [q \in QIDs |-> CASE q = "Q1" -> {"fr", "en"}
                      [] q = "Q2" -> {"en"}
                      [] OTHER -> {}]

\* labels.get(language, {}).get("value") or labels.get("en", {}).get("value",
\* qid): the label is written as the pair of identifier and language.
LabelOf(q, language) ==
    IF language \in WikidataLabels[q] THEN <<q, language>>
    ELSE IF "en" \in WikidataLabels[q] THEN <<q, "en">>
    ELSE <<q>>

\* A key made of the identifier alone.
CacheKeyOfQid(q, language) == q

\* cache_key = f"{qid}:{language}"
CacheKey(q, language) == q \o ":" \o language

\* The first loop: every identifier is looked up; a hit goes into result,
\* a miss into qids_to_fetch.
RECURSIVE PartitionCached(_, _, _, _, _, _)
PartitionCached(c, qids, language, now, labels, to_fetch) ==
    IF Len(qids) = 0
    THEN [cache |-> c, result |-> labels, qids_to_fetch |-> to_fetch]
    ELSE LET q == Head(qids)
             got == cache_get(c, CacheKey(q, language), now)
         IN  IF got.ret # None
             THEN PartitionCached(got.cache, Tail(qids), language, now,
                                  [labels EXCEPT ![q] = got.ret], to_fetch)
             ELSE PartitionCached(got.cache, Tail(qids), language, now,
                                  labels, Append(to_fetch, q))

\* for i in range(0, len(qids_to_fetch), 50): batch = qids_to_fetch[i:i + 50]
Batches(to_fetch) ==
    [b \in 1..((Len(to_fetch) + LABEL_BATCH - 1) \div LABEL_BATCH) |->
        SubSeq(to_fetch, (b - 1) * LABEL_BATCH + 1,
               Min(b * LABEL_BATCH, Len(to_fetch)))]

\* A loop over the entities that fills result and leaves the cache alone.
RECURSIVE KeepBatch(_, _, _, _, _)
KeepBatch(c, batch, language, now, labels) ==
    IF Len(batch) = 0 THEN [cache |-> c, result |-> labels]
    ELSE KeepBatch(c, Tail(batch), language, now,
                   [labels EXCEPT ![Head(batch)] =
                        Some(LabelOf(Head(batch), language))])

\* for qid, entity in entities.items(): result[qid] = label;
\* _cache_set(f"{qid}:{language}", label).  The response has one entity per
\* identifier asked for.
RECURSIVE StoreBatch(_, _, _, _, _)
StoreBatch(c, batch, language, now, labels) ==
    IF Len(batch) = 0 THEN [cache |-> c, result |-> labels]
    ELSE LET q == Head(batch)
             label == LabelOf(q, language)
         IN  StoreBatch(cache_set(c, CacheKey(q, language), label, now).cache,
                        Tail(batch), language, now,
                        [labels EXCEPT ![q] = Some(label)])

\* The second loop over the batches from number b on.
RECURSIVE FetchBatches(_, _, _, _, _, _)
FetchBatches(c, batches, b, language, now, labels) ==
    IF b > Len(batches) THEN [cache |-> c, result |-> labels]
    ELSE LET done == StoreBatch(c, batches[b], language, now, labels)
         IN  FetchBatches(done.cache, batches, b + 1, language, now,
                          done.result)

\* One invocation of resolve_labels in which no request fails: the cache
\* it leaves, the dict it returns, the identifiers it found cached and the
\* requests it made.  The lookups read the clock as `looked`, the stores,
\* after the requests, as `stored`.
resolve_labels_once(c, qids, language, looked, stored) ==
    LET none == [q \in QIDs |-> None]
        part == PartitionCached(c, qids, language, looked, none, <<>>)
        calls == Batches(part.qids_to_fetch)
        done == FetchBatches(part.cache, calls, 1, language, stored,
                             part.result)
    IN  IF Len(qids) = 0
        THEN [cache |-> c, result |-> none, hits |-> {}, calls |-> <<>>]
        ELSE [cache |-> done.cache, result |-> done.result,
              hits |-> {q \in QIDs : part.result[q] # None},
              calls |-> calls]

\* No call of resolve_labels yet.
NoResolve ==
    [pc |-> "idle", seq |-> 0, qids |-> <<>>, language |-> "", hits |-> {},
     calls |-> <<>>, result |-> [q \in QIDs |-> None], at |-> 0,
     again |-> None]

\* -------------------------------------------------- connection pool -----
\* One thread more than the pool has connections.
PoolThreads == 1..(POOL_SIZE + 1)

\* _pool = LifoQueue(maxsize=_POOL_SIZE), _pool_lock, _pool_created = 0.
\* Connections are numbered in the order _create_connection made them.
EmptyPool ==
    [q |-> <<>>, lock |-> None, created |-> 0, ever |-> 0, broken |-> {},
     closed |-> {}, exit |-> "none"]

\* A thread outside _get_connection: conn = None.
NoConnection == [pc |-> "idle", conn |-> 0]

\* ------------------------------------------------ locks and threads -----
\* The three locks of the application.
LockNames == {"analysis_lock", "_label_cache_lock", "_pool_lock"}

\* A worker thread, and another thread: a request handler or a second worker.
LockThreads == {"worker", "other"}

\* The statements a thread runs, as far as locks and waiting go.
Acquire(l) == [op |-> "acquire", lock |-> l]
Release(l) == [op |-> "release", lock |-> l]
\* Statements on memory or on the SQLite connection.
Local == [op |-> "local", lock |-> ""]
\* requests.get(...)
Remote == [op |-> "remote", lock |-> ""]
\* time.sleep(delay)
Sleep == [op |-> "sleep", lock |-> ""]
\* _pool.get(), which blocks until a connection is put
PoolGet == [op |-> "get", lock |-> ""]

\* with lock: body
WithLock(l, body) == <<Acquire(l)>> \o body \o <<Release(l)>>

\* A _set_job that also writes the record to the database under the lock.
SetJobPersisting ==
    WithLock("analysis_lock",
             <<Local>> \o WithLock("_pool_lock", <<Local>>) \o <<Local>>)

\* _set_job, and likewise is_job_cancelled, cancel_job, job_total and the
\* lookup of api_progress: dict statements inside `with analysis_lock`.
SetJobSteps == WithLock("analysis_lock", <<Local>>)

\* hook(info): is_job_cancelled(job_id), then _set_job(job_id, **info)
HookSteps == SetJobSteps \o SetJobSteps

\* _cache_get and _cache_set: dict statements inside `with
\* _label_cache_lock`.
CacheSteps == WithLock("_label_cache_lock", <<Local>>)

\* The ways _get_connection comes by a connection.
PoolPaths == {"queued", "create", "wait"}

\* with _get_connection() as conn: statements; commit.  get_nowait succeeds,
\* or under _pool_lock a connection is made or waited for; the statements
\* run and put_nowait hands the connection back.
DbCallSteps(path) ==
    (CASE path = "queued" -> <<Local>>
       [] path = "create" -> WithLock("_pool_lock", <<Local>>)
       [] OTHER -> WithLock("_pool_lock", <<PoolGet>>))
    \o <<Local, Local>>

\* fetch_category_files: the validation request and a page request.
FetchSteps == <<Remote, Remote>>

\* check_depicts: the page request and the structured-data request.
CheckDepictsSteps == <<Remote, Remote>>

\* A resolve_labels that asks the remote service inside the cache's lock.
ResolveUnderLock(miss) ==
    IF miss THEN WithLock("_label_cache_lock", <<Local, Remote, Local>>)
    ELSE CacheSteps

\* resolve_labels for one identifier: _cache_get; on a miss the request and
\* then _cache_set.
ResolveSteps(miss) ==
    IF miss THEN CacheSteps \o <<Remote>> \o CacheSteps ELSE CacheSteps

\* A wrapped function whose first attempt fails at its first request (if it
\* makes one): the wrapper sleeps and calls the function again.
Retried(body, fails) ==
    IF ~fails \/ Remote \notin Range(body) THEN body
    ELSE LET k == CHOOSE i \in 1..Len(body) :
                      /\ body[i] = Remote
                      /\ \A m \in 1..(i - 1) : body[m] # Remote
         IN  SubSeq(body, 1, k) \o <<Sleep>> \o body

\* analyze_category over a category of one file.
AnalyzeSteps(path, miss, fails) ==
    DbCallSteps(path) \o HookSteps \o Retried(FetchSteps, fails)
        \o HookSteps \o HookSteps
        \o Retried(CheckDepictsSteps, fails)
        \o Retried(ResolveSteps(miss), fails)
        \o DbCallSteps(path)
        \o HookSteps \o DbCallSteps(path) \o DbCallSteps(path)

\* _run_analysis_job: _set_job(running), analyze_category,
\* is_job_cancelled, job_total, _set_job(done).
RunJobSteps(path, miss, fails) ==
    SetJobSteps \o AnalyzeSteps(path, miss, fails)
        \o SetJobSteps \o SetJobSteps \o SetJobSteps

\* What a thread can run: the worker a job, the other thread a request
\* (start_analysis_job, cancel_job, api_progress) or a job of its own.
Programs(t) ==
    IF t = "worker"
    THEN {RunJobSteps(path, miss, fails) :
              path \in PoolPaths, miss \in BOOLEAN, fails \in BOOLEAN}
    ELSE {SetJobSteps, RunJobSteps("wait", TRUE, TRUE)}

\* A thread that runs nothing yet.
NotStarted == [prog |-> <<>>, ip |-> 1]

\* ---------------------------------------------------------------- Init ---
Remotes ==
    {[exists |-> FALSE, members |-> <<>>]}
        \cup {[exists |-> TRUE, members |-> m] : m \in Listings(Files, MaxItems)}

\* Rows an earlier analysis can have left for a file.
RowKinds == {"absent", "without", "with"}

PriorTables ==
    {{Row(f, TheCategory,
          IF k[f] = "with" THEN Some(Join(<<"Cat">>)) ELSE None,
          k[f] = "with") : f \in {g \in Files : k[g] # "absent"}}
        \cup {Row(1, OtherCategory, None, FALSE)} : k \in [Files -> RowKinds]}

\* Nothing started yet, over one of the given tables, remote categories and
\* fault budgets.
InitOver(tables, remotes, budgets) ==
    /\ jobs = [j \in JobIds |-> NoJob]
    /\ pc = [j \in JobIds |-> "idle"]
    /\ stage = [j \in JobIds |-> "none"]
    /\ wcat = [j \in JobIds |-> None]
    /\ files = [j \in JobIds |-> <<>>]
    /\ idx = [j \in JobIds |-> 0]
    /\ pending = [j \in JobIds |-> None]
    /\ outcomes = [j \in JobIds |-> <<>>]
    /\ netlog = [j \in JobIds |-> None]
    /\ result = [j \in JobIds |-> [kind |-> "none"]]
    /\ jtotal = [j \in JobIds |-> 0]
    /\ db \in tables
    /\ commons \in remotes
    /\ faults \in budgets
    /\ cancel_ok = [j \in JobIds |-> 0]
    /\ cancel_at = [j \in JobIds |-> None]
    /\ stale = [j \in JobIds |-> FALSE]
    /\ poll = NoPoll
    /\ seen = {}
    /\ rt = NoRetry
    /\ label_cache = <<>>
    /\ cache_lock = None
    /\ clock = 0
    /\ ct = [t \in CacheThreads |-> NoCacheCall]
    /\ cghost = NoCacheHistory
    /\ pool = EmptyPool
    /\ pt = [t \in PoolThreads |-> NoConnection]
    /\ pjob = None
    /\ percent = None
    /\ hist = [j \in JobIds |-> <<>>]
    /\ lr = NoResolve
    /\ analysis_lock = None
    /\ th = [t \in LockThreads |-> NotStarted]

Init == InitOver(PriorTables, Remotes, {MaxFaults})

\* ------------------------------------------------ start_analysis_job -----
\* A fresh job id: the record is created queued and the worker thread is
\* started with the category as the caller gave it.
start_analysis_job(j) ==
    /\ jobs[j] = NoJob
    /\ pc[j] = "idle"
    /\ \E name \in CategoryNames, lang \in Languages :
          /\ jobs' = [jobs EXCEPT ![j] =
                        set_job(NoJob, [status |-> "queued", phase |-> "queued",
                                        category |-> name, language |-> lang,
                                        processed |-> 0, total |-> None,
                                        message |-> "Queued"])]
          /\ wcat' = [wcat EXCEPT ![j] = name]
    /\ pc' = [pc EXCEPT ![j] = "run"]
    /\ UNCHANGED <<stage, files, idx, pending, outcomes, netlog, result,
                   jtotal, db, otherVars,
                   stale, cancelVars>>
    /\ Watch

\* ------------------------------------------------------- cancel_job ------
cancel_job(j) ==
    /\ jobs' = [jobs EXCEPT ![j] = CancelledJob(jobs[j])]
    /\ IF CancelReturns(jobs[j])
       THEN /\ cancel_ok' = [cancel_ok EXCEPT ![j] = @ + 1]
            /\ cancel_at' = [cancel_at EXCEPT ![j] =
                               Some([pc |-> pc[j], stage |-> stage[j],
                                     idx |-> idx[j]])]
       ELSE UNCHANGED cancelVars
    /\ UNCHANGED <<workerVars, db, otherVars, stale>>
    /\ Watch

\* ------------------------------------------------ _run_analysis_job ------
\* _set_job(job_id, status="running", phase="fetching", ...)
W_SetRunning(j) ==
    /\ pc[j] = "run"
    /\ jobs' = [jobs EXCEPT ![j] =
                  set_job(jobs[j], [status |-> "running", phase |-> "fetching",
                                    message |-> "Starting analysis"])]
    /\ pc' = [pc EXCEPT ![j] = "clear"]
    /\ UNCHANGED <<stage, wcat, files, idx, pending, outcomes, netlog, result,
                   jtotal, db, otherVars,
                   stale, cancelVars>>
    /\ Watch

\* analyze_category: normalize the name, clear the category's rows.
W_Clear(j) ==
    /\ pc[j] = "clear"
    /\ wcat' = [wcat EXCEPT ![j] = Normalize(wcat[j])]
    /\ db' = clear_category(db, Normalize(wcat[j]))
    /\ stale' = [stale EXCEPT ![j] =
                   \E r \in db \ db' : r.file_name \notin Range(commons.members)]
    /\ stage' = [stage EXCEPT ![j] = "fetching"]
    /\ pc' = [pc EXCEPT ![j] = "hook_check"]
    /\ UNCHANGED <<jobs, files, idx, pending, outcomes, netlog, result,
                   jtotal, otherVars, cancelVars>>
    /\ Watch

\* hook: if is_job_cancelled(job_id): raise _AnalysisCancelled().  The
\* exception leaves analyze_category and _run_analysis_job returns.
W_HookCheck(j) ==
    /\ pc[j] = "hook_check"
    /\ IF is_job_cancelled(jobs[j])
       THEN /\ result' = [result EXCEPT ![j] = [kind |-> "cancelled"]]
            /\ pc' = [pc EXCEPT ![j] = "done"]
       ELSE /\ pc' = [pc EXCEPT ![j] = "hook_set"]
            /\ UNCHANGED result
    /\ UNCHANGED <<jobs, stage, wcat, files, idx, pending, outcomes, netlog,
                   jtotal, db, otherVars,
                   stale, cancelVars>>
    /\ Watch

\* hook: _set_job(job_id, **info), then on with analyze_category.
W_HookSet(j) ==
    /\ pc[j] = "hook_set"
    /\ jobs' = [jobs EXCEPT ![j] =
                  set_job(jobs[j], HookInfo(stage[j], idx[j], Len(files[j])))]
    /\ CASE stage[j] = "fetching" ->
              /\ pc' = [pc EXCEPT ![j] = "fetch"]
              /\ UNCHANGED <<stage, idx>>
         [] stage[j] = "checking" ->
              /\ pc' = [pc EXCEPT ![j] = "hook_check"]
              /\ stage' = [stage EXCEPT ![j] = "item"]
              /\ idx' = [idx EXCEPT ![j] = 1]
         [] stage[j] = "item" ->
              /\ pc' = [pc EXCEPT ![j] = "check"]
              /\ UNCHANGED <<stage, idx>>
         [] stage[j] = "finalizing" ->
              /\ pc' = [pc EXCEPT ![j] = "stats"]
              /\ UNCHANGED <<stage, idx>>
    /\ UNCHANGED <<wcat, files, pending, outcomes, netlog, result, jtotal,
                   db, otherVars,
                   stale, cancelVars>>
    /\ Watch

\* analyze_category without its `if not files` test.
FetchResultKeepsEmpty(ret) ==
    CASE ret.kind = "ValueError" -> [kind |-> "error", error |-> ret.msg]
      [] ret.kind = "RequestException" ->
           [kind |-> "error", error |-> "Failed to fetch category"]
      [] OTHER -> [kind |-> "none"]

\* What analyze_category makes of fetch_category_files' outcome.
FetchResult(ret) ==
    CASE ret.kind = "ValueError" -> [kind |-> "error", error |-> ret.msg]
      [] ret.kind = "RequestException" ->
           [kind |-> "error", error |-> "Failed to fetch category"]
      [] ret.kind = "files" /\ Len(ret.files) = 0 ->
           [kind |-> "error", error |-> "No files found in category"]
      [] OTHER -> [kind |-> "none"]

\* files = fetch_category_files(category_name), with its retries.
W_Fetch(j) ==
    /\ pc[j] = "fetch"
    /\ \E script \in Scripts(commons, faults) :
          LET run == fetch_category_files(commons, script)
              res == FetchResult(run.ret)
          IN  /\ netlog' = [netlog EXCEPT ![j] =
                              Some([call |-> "fetch_category_files",
                                    calls |-> run.calls, sleeps |-> run.sleeps,
                                    requests |-> run.requests])]
              /\ result' = [result EXCEPT ![j] = res]
              /\ IF res.kind = "error"
                 THEN /\ pc' = [pc EXCEPT ![j] = "final_check"]
                      /\ UNCHANGED <<files, stage>>
                 ELSE /\ files' = [files EXCEPT ![j] = run.ret.files]
                      /\ stage' = [stage EXCEPT ![j] = "checking"]
                      /\ pc' = [pc EXCEPT ![j] = "hook_check"]
    /\ UNCHANGED <<jobs, wcat, idx, pending, outcomes, jtotal, db,
                   otherVars, stale, cancelVars>>
    /\ Watch

\* What check_depicts and resolve_labels do for one file: no statement;
\* a statement whose identifiers resolve; a statement whose resolution
\* fails on every attempt; a check that fails on every attempt; a check
\* that raises an error of another class.
ItemOutcomes ==
    {"none", "labelled", "resolve_failed", "check_failed", "check_error"}
ItemFailures == {"resolve_failed", "check_failed", "check_error"}

\* What an outcome means for the item: a statement with resolved labels, no
\* statement, or a failure.
OutcomeClass(o) ==
    IF o = "labelled" THEN "with"
    ELSE IF o = "none" THEN "without"
    ELSE "failed"

\* The decorated check_depicts for an outcome.
check_depicts(o) ==
    LET r == CASE o = "none" -> [kind |-> "value", has_depicts |-> FALSE,
                                 qids |-> <<>>]
               [] o \in {"labelled", "resolve_failed"} ->
                    [kind |-> "value", has_depicts |-> TRUE, qids |-> <<"Q1">>]
               [] o = "check_failed" -> [kind |-> "RequestException"]
               [] o = "check_error" -> [kind |-> "Exception"]
    IN  retry_on_failure(ITEM_MAX_RETRIES, ITEM_BASE_DELAY,
                         [a \in 1..(ITEM_MAX_RETRIES + 1) |-> r])

\* The decorated resolve_labels for an outcome.
resolve_labels(o) ==
    LET r == IF o = "resolve_failed" THEN [kind |-> "RequestException"]
             ELSE [kind |-> "value", labels |-> <<"Cat">>]
    IN  retry_on_failure(ITEM_MAX_RETRIES, ITEM_BASE_DELAY,
                         [a \in 1..(ITEM_MAX_RETRIES + 1) |-> r])

\* The loop body with an except block that stores the flag the check
\* returned in place of False.
ProcessItemKeepsFlag(f, cat, o) ==
    LET chk == check_depicts(o)
        res == resolve_labels(o)
        Log(name, run) ==
            [call |-> name, calls |-> run.calls, sleeps |-> run.sleeps]
    IN  IF chk.ret.kind # "value"
        THEN [row |-> Row(f, cat, None, FALSE), log |-> Log("check_depicts", chk)]
        ELSE IF Len(chk.ret.qids) = 0
        THEN [row |-> Row(f, cat, None, chk.ret.has_depicts),
              log |-> Log("check_depicts", chk)]
        ELSE IF res.ret.kind # "value"
        THEN [row |-> Row(f, cat, None, chk.ret.has_depicts),
              log |-> Log("resolve_labels", res)]
        ELSE [row |-> Row(f, cat, Some(Join(res.ret.labels)),
                          chk.ret.has_depicts),
              log |-> Log("resolve_labels", res)]

\* The body of the loop for one file: the row it stores (the try block's
\* insert after a clean check and resolve, the except block's insert of
\* (None, False) otherwise) and the log of the last remote call it made.
ProcessItem(f, cat, o) ==
    LET chk == check_depicts(o)
        res == resolve_labels(o)
        Log(name, run) ==
            [call |-> name, calls |-> run.calls, sleeps |-> run.sleeps]
    IN  IF chk.ret.kind # "value"
        THEN [row |-> Row(f, cat, None, FALSE), log |-> Log("check_depicts", chk)]
        ELSE IF Len(chk.ret.qids) = 0
        THEN [row |-> Row(f, cat, None, chk.ret.has_depicts),
              log |-> Log("check_depicts", chk)]
        ELSE IF res.ret.kind # "value"
        THEN [row |-> Row(f, cat, None, FALSE), log |-> Log("resolve_labels", res)]
        ELSE [row |-> Row(f, cat, Some(Join(res.ret.labels)),
                          chk.ret.has_depicts),
              log |-> Log("resolve_labels", res)]

\* An enumeration that hands out the files from the end of the list.
ItemFromEnd(fs, i) == fs[Len(fs) + 1 - i]

\* for i, file_title in enumerate(files): the file of iteration i (from 1).
ItemAt(fs, i) == fs[i]

\* has_depicts, qids = check_depicts(file_title); labels = resolve_labels(...)
W_Check(j) ==
    /\ pc[j] = "check"
    /\ \E o \in ItemOutcomes :
          LET done == ProcessItem(ItemAt(files[j], idx[j]), wcat[j], o) IN
          /\ outcomes' = [outcomes EXCEPT ![j] = Append(@, OutcomeClass(o))]
          /\ pending' = [pending EXCEPT ![j] = Some(done.row)]
          /\ netlog' = [netlog EXCEPT ![j] = Some(done.log)]
          /\ hist' = [hist EXCEPT ![j] =
                        Append(@, <<"check", done.row.file_name>>)]
    /\ pc' = [pc EXCEPT ![j] = "insert"]
    /\ UNCHANGED <<jobs, stage, wcat, files, idx, result, jtotal, db,
                   commons, faults, libVars, poll,
                   stale, cancelVars>>
    /\ Watch

\* insert_file(...), then the next iteration or the end of the loop.
W_Insert(j) ==
    /\ pc[j] = "insert"
    /\ LET r == pending[j][1] IN
          db' = insert_file(db, r.file_name, r.category, r.depicts, r.has_depicts)
    /\ pending' = [pending EXCEPT ![j] = None]
    /\ hist' = [hist EXCEPT ![j] =
                  Append(@, <<"insert", pending[j][1].file_name>>)]
    /\ IF idx[j] < Len(files[j])
       THEN /\ idx' = [idx EXCEPT ![j] = @ + 1]
            /\ UNCHANGED stage
       ELSE /\ stage' = [stage EXCEPT ![j] = "finalizing"]
            /\ UNCHANGED idx
    /\ pc' = [pc EXCEPT ![j] = "hook_check"]
    /\ UNCHANGED <<jobs, wcat, files, outcomes, netlog, result, jtotal,
                   commons, faults, libVars, poll,
                   stale, cancelVars>>
    /\ Watch

\* stats = get_statistics(category_name)
W_Stats(j) ==
    /\ pc[j] = "stats"
    /\ result' = [result EXCEPT ![j] =
                    [kind |-> "partial",
                     statistics |-> get_statistics(db, wcat[j])]]
    /\ pc' = [pc EXCEPT ![j] = "get_files"]
    /\ UNCHANGED <<jobs, stage, wcat, files, idx, pending, outcomes, netlog,
                   jtotal, db, otherVars,
                   stale, cancelVars>>
    /\ Watch

\* files_data = get_files_by_category(category_name); return {...}
W_GetFiles(j) ==
    /\ pc[j] = "get_files"
    /\ result' = [result EXCEPT ![j] =
                    [kind |-> "ok", category |-> wcat[j],
                     statistics |-> result[j].statistics,
                     files |-> get_files_by_category(db, wcat[j])]]
    /\ pc' = [pc EXCEPT ![j] = "final_check"]
    /\ UNCHANGED <<jobs, stage, wcat, files, idx, pending, outcomes, netlog,
                   jtotal, db, otherVars,
                   stale, cancelVars>>
    /\ Watch

\* if is_job_cancelled(job_id): return
W_FinalCheck(j) ==
    /\ pc[j] = "final_check"
    /\ pc' = [pc EXCEPT ![j] =
                IF is_job_cancelled(jobs[j]) THEN "done"
                ELSE IF result[j].kind = "error" THEN "set_error"
                ELSE "job_total"]
    /\ UNCHANGED <<jobs, stage, wcat, files, idx, pending, outcomes, netlog,
                   result, jtotal, db, otherVars,
                   stale, cancelVars>>
    /\ Watch

\* _set_job(job_id, status="error", error=result["error"], phase="error")
W_SetError(j) ==
    /\ pc[j] = "set_error"
    /\ jobs' = [jobs EXCEPT ![j] =
                  set_job(jobs[j], [status |-> "error",
                                    error |-> Some(result[j].error),
                                    phase |-> "error"])]
    /\ pc' = [pc EXCEPT ![j] = "done"]
    /\ UNCHANGED <<stage, wcat, files, idx, pending, outcomes, netlog, result,
                   jtotal, db, otherVars,
                   stale, cancelVars>>
    /\ Watch

\* job_total(job_id): int(job.get("total") or 0), read under the lock.
W_JobTotal(j) ==
    /\ pc[j] = "job_total"
    /\ jtotal' = [jtotal EXCEPT ![j] =
                    IF jobs[j].total = None THEN 0 ELSE jobs[j].total[1]]
    /\ pc' = [pc EXCEPT ![j] = "set_done"]
    /\ UNCHANGED <<jobs, stage, wcat, files, idx, pending, outcomes, netlog,
                   result, db, otherVars,
                   stale, cancelVars>>
    /\ Watch

\* _set_job(job_id, status="done", phase="done", processed=..., ...)
W_SetDone(j) ==
    /\ pc[j] = "set_done"
    /\ jobs' = [jobs EXCEPT ![j] =
                  set_job(jobs[j], [status |-> "done", phase |-> "done",
                                    processed |-> jtotal[j],
                                    message |-> "Completed"])]
    /\ pc' = [pc EXCEPT ![j] = "done"]
    /\ UNCHANGED <<stage, wcat, files, idx, pending, outcomes, netlog, result,
                   jtotal, db, otherVars,
                   stale, cancelVars>>
    /\ Watch

Worker(j) ==
    \/ W_SetRunning(j)
    \/ W_Clear(j)
    \/ W_HookCheck(j)
    \/ W_HookSet(j)
    \/ W_Fetch(j)
    \/ W_Check(j)
    \/ W_Insert(j)
    \/ W_Stats(j)
    \/ W_GetFiles(j)
    \/ W_FinalCheck(j)
    \/ W_SetError(j)
    \/ W_JobTotal(j)
    \/ W_SetDone(j)

\* with analysis_lock: job = analysis_jobs.get(job_id).  The lock is
\* released with a reference to the live dict, not a copy; an unknown id is
\* answered 404 at once.
P_Lookup(j) ==
    /\ poll.pc = "idle"
    /\ jobs[j] # NoJob
    /\ poll' = [pc |-> "read", job |-> j, payload |-> <<>>]
    /\ seen' = {jobs[j]}
    /\ UNCHANGED <<jobs, workerVars, db, envVars, stale, cancelVars>>

\* One job.get(...) of the payload, outside the lock.
P_Read ==
    /\ poll.pc = "read"
    /\ LET k == Len(poll.payload) + 1
           v == jobs[poll.job][ReadKey(PollReads[k])]
       IN  poll' = [poll EXCEPT !.payload = Append(@, v),
                                !.pc = IF k = Len(PollReads) THEN "respond"
                                       ELSE "read"]
    /\ UNCHANGED <<jobs, workerVars, db, envVars, stale, cancelVars, seen>>

\* return jsonify(payload)
P_Respond ==
    /\ poll.pc = "respond"
    /\ poll' = NoPoll
    /\ seen' = {}
    /\ UNCHANGED <<jobs, workerVars, db, envVars, stale, cancelVars>>

\* The payload of the response about to be sent.
Payload ==
    [r \in Range(PollReads) |->
        poll.payload[CHOOSE k \in 1..Len(PollReads) : PollReads[k] = r]]

Next ==
    \/ \E j \in Started : start_analysis_job(j)
    \/ \E j \in Started : Worker(j)
    \/ \E j \in JobIds : cancel_job(j)

Spec == Init /\ [][Next]_vars

\* A statement on the database raises (sqlite3.Error).  In the try block of
\* the loop the except block takes over and inserts (None, False) for the
\* file; anywhere else (clear_category, the except block's own insert_file,
\* get_statistics, get_files_by_category) nothing catches the error: it
\* leaves analyze_category and _run_analysis_job, which catches only
\* _AnalysisCancelled, and the thread ends.
W_DbRaise(j) ==
    /\ pc[j] \in {"clear", "insert", "stats", "get_files"}
    /\ IF pc[j] = "insert" /\ outcomes[j][idx[j]] # "failed"
       THEN /\ pending' = [pending EXCEPT ![j] =
                              Some(Row(pending[j][1].file_name, wcat[j],
                                       None, FALSE))]
            /\ outcomes' = [outcomes EXCEPT ![j][idx[j]] = "failed"]
            /\ UNCHANGED pc
       ELSE /\ pc' = [pc EXCEPT ![j] = "raised"]
            /\ UNCHANGED <<pending, outcomes>>
    /\ UNCHANGED <<jobs, stage, wcat, files, idx, netlog, result, jtotal, db,
                   otherVars, stale, cancelVars>>
    /\ Watch

\* One job whose database statements can raise.
NextFail ==
    \/ Next
    \/ \E j \in Started : W_DbRaise(j)

\* The worker thread runs on while it has a statement to run; nothing
\* makes anybody call cancel_job.
FailFairness == \A j \in Started : WF_vars(Worker(j) \/ W_DbRaise(j))

SpecFail == Init /\ [][NextFail]_vars /\ FailFairness

\* Progress polling: one job over a reliable network and a category of at
\* most one file, polled by api_progress any number of times.
InitPoll ==
    InitOver({{Row(1, OtherCategory, None, FALSE)}},
             {[exists |-> FALSE, members |-> <<>>],
              [exists |-> TRUE, members |-> <<1>>]},
             {0})

NextPoll ==
    \/ Next
    \/ \E j \in JobIds : P_Lookup(j)
    \/ P_Read
    \/ P_Respond

SpecPoll == InitPoll /\ [][NextPoll]_vars

\* Two jobs at once: both ids are started, over a reliable network, on a
\* category of two files (or a missing one); nobody cancels.
InitTwo ==
    InitOver({{Row(1, OtherCategory, None, FALSE)}},
             {[exists |-> FALSE, members |-> <<>>],
              [exists |-> TRUE, members |-> <<1, 2>>]},
             {0})

NextTwo ==
    \/ \E j \in JobIds : start_analysis_job(j)
    \/ \E j \in JobIds : Worker(j)

SpecTwo == InitTwo /\ [][NextTwo]_vars

\* ================================================================ claims ==
\* Rows of the worker's category in the files table.
CatRows(j) == {r \in db : r.category = wcat[j]}

\* Items of the listing whose row the worker has inserted.
Persisted(j) ==
    IF pc[j] = "insert" THEN Len(outcomes[j]) - 1 ELSE Len(outcomes[j])

\* The worker thread of job j has returned.
Stopped(j) == pc[j] = "done"

\* C1: once cancel_job has returned True for a job, the job's status is
\* never running, done or error again, and it is cancelled when the worker
\* has stopped.
C1_CancelSticks ==
    \A j \in JobIds :
        cancel_ok[j] > 0 =>
            /\ jobs[j].status \notin {"running", "done", "error"}
            /\ Stopped(j) => jobs[j].status = "cancelled"

\* C2: a job's status only moves forward along queued -> running ->
\* {done, error, cancelled}: a terminal status is never changed and a status
\* that has left queued never becomes queued again.
StatusRank(st) ==
    CASE st = "absent" -> 0
      [] st = "queued" -> 1
      [] st = "running" -> 2
      [] OTHER -> 3

C2_StatusForward ==
    [][\A j \in JobIds :
          /\ StatusRank(jobs'[j].status) >= StatusRank(jobs[j].status)
          /\ jobs[j].status \in Terminal => jobs'[j].status = jobs[j].status]_vars

\* C3: once a job's status is terminal no step changes any field of its
\* record; in particular the progress hook never writes into a record that
\* cancel_job has marked cancelled.
C3_TerminalFrozen ==
    [][\A j \in JobIds :
          jobs[j].status \in Terminal => jobs'[j] = jobs[j]]_vars

\* C4: the status, phase, processed, total, message and error of one
\* progress response are the values the record held at one instant between
\* the poll's lookup and its response.
C4_SnapshotConsistent ==
    poll.pc = "respond" =>
        \E rec \in seen : View(rec) = PayloadView(Payload)

\* C5: cancel_job on a job that is done, error or cancelled, or on an
\* unknown id, returns False and changes no record; so of the cancels of one
\* job at most one returns True.
C5_CancelRefused ==
    [][\A j \in JobIds :
          /\ (cancel_job(j) /\ ~CancelReturns(jobs[j]))
                => UNCHANGED <<jobs, cancel_ok>>
          /\ cancel_ok'[j] <= 1]_vars

\* ------------------------------------- retry_on_failure, step by step ---
\* What the jobs' threads and the poller own.
jobVars == <<jobs, workerVars, db, commons, faults, stale, cancelVars, hist,
             poll, seen>>

\* What a wrapped function can do on one attempt: return a value, raise a
\* transport error, raise an error of another class.
RetryKinds == {"value", "RequestException", "ValueError"}
\* The base delays the decorators of api.py use, in ms.
BaseDelays == {ITEM_BASE_DELAY, FETCH_BASE_DELAY}

\* `except` with a class every error belongs to.
RetryableAny(kind) == kind # "value"

\* except requests.exceptions.RequestException
Retryable(kind) == kind = "RequestException"

\* delay = base_delay * 2, whatever the attempt.
BackoffFlat(base_delay, attempt) == base_delay * 2

\* delay = base_delay * (2 ** attempt)
Backoff(base_delay, attempt) == base_delay * (2 ^ attempt)

\* A test that also holds on the last attempt.
SleepsAfterAlways(attempt, max_retries) == attempt <= max_retries

\* if attempt < max_retries
SleepsAfter(attempt, max_retries) == attempt < max_retries

\* The head of `for attempt in range(max_retries + 1)` after an iteration:
\* the next attempt, or past the loop `raise last_exception`.
LoopNext(r) ==
    IF r.attempt + 1 <= r.max_retries
    THEN [r EXCEPT !.attempt = @ + 1, !.pc = "call"]
    ELSE [r EXCEPT !.pc = "raised", !.ret = r.last_exception]

\* A caller invokes a wrapped function.
R_Begin ==
    /\ rt.pc = "idle"
    /\ \E m \in 0..MaxRetries, b \in BaseDelays :
          \E res \in [1..(m + 1) -> RetryKinds] :
              rt' = [NoRetry EXCEPT !.pc = "call", !.max_retries = m,
                                    !.base_delay = b, !.results = res]
    /\ UNCHANGED <<jobVars, sideVars, cacheVars, poolVars>>

\* try: return func(*args, **kwargs) / except RequestException as e
R_Attempt ==
    /\ rt.pc = "call"
    /\ LET kind == rt.results[rt.attempt + 1]
           out == [kind |-> kind, attempt |-> rt.attempt]
           r == [rt EXCEPT !.trace = Append(@, [ev |-> "call", arg |-> kind])]
       IN  rt' = IF kind = "value"
                 THEN [r EXCEPT !.pc = "returned", !.ret = Some(out)]
                 ELSE IF Retryable(kind)
                 THEN LET e == [r EXCEPT !.last_exception = Some(out)] IN
                      IF SleepsAfter(rt.attempt, rt.max_retries)
                      THEN [e EXCEPT !.pc = "sleep"]
                      ELSE LoopNext(e)
                 ELSE [r EXCEPT !.pc = "raised", !.ret = Some(out)]
    /\ UNCHANGED <<jobVars, sideVars, cacheVars, poolVars>>

\* time.sleep(delay)
R_Sleep ==
    /\ rt.pc = "sleep"
    /\ rt' = LoopNext([rt EXCEPT !.trace =
                          Append(@, [ev |-> "sleep",
                                     arg |-> Backoff(rt.base_delay, rt.attempt)])])
    /\ UNCHANGED <<jobVars, sideVars, cacheVars, poolVars>>

NextRetry == R_Begin \/ R_Attempt \/ R_Sleep

InitRetry ==
    InitOver({{Row(1, OtherCategory, None, FALSE)}},
             {[exists |-> FALSE, members |-> <<>>]}, {0})

SpecRetry == InitRetry /\ [][NextRetry]_vars

\* ------------------------------------- _cache_get / _cache_set steps -----
retryVars == <<rt>>

\* An acquire that never waits.
AcquireAnyway(l) == TRUE

\* with _label_cache_lock: the lock is free.
CanAcquire(l) == l = None

\* _cache_get(cache_key): now = time.time()
C_Get(t, k) ==
    /\ ct[t].pc = "idle"
    /\ ct' = [ct EXCEPT ![t] = [NoCacheCall EXCEPT !.pc = "lock", !.op = "get",
                                                   !.key = k, !.now = clock]]
    /\ UNCHANGED <<jobVars, sideVars, retryVars, poolVars, label_cache, cache_lock, clock, cghost>>

\* _cache_set(cache_key, value): now = time.time()
C_Set(t, k, v) ==
    /\ ct[t].pc = "idle"
    /\ ct' = [ct EXCEPT ![t] = [NoCacheCall EXCEPT !.pc = "lock", !.op = "set",
                                                   !.key = k, !.value = v,
                                                   !.now = clock]]
    /\ UNCHANGED <<jobVars, sideVars, retryVars, poolVars, label_cache, cache_lock, clock, cghost>>

\* with _label_cache_lock.  The history notes what the call would do if it
\* ran in one piece from here, and what was known about its key.
C_Lock(t) ==
    /\ ct[t].pc = "lock"
    /\ CanAcquire(cache_lock)
    /\ cache_lock' = Some(t)
    /\ LET c == ct[t]
           one == IF c.op = "get"
                  THEN cache_get(cghost.shadow, c.key, c.now)
                  ELSE cache_set(cghost.shadow, c.key, c.value, c.now)
       IN  /\ cghost' = [cghost EXCEPT !.shadow = one.cache]
           /\ ct' = [ct EXCEPT ![t].pc = IF c.op = "get" THEN "lookup"
                                         ELSE "store",
                               ![t].expect = one.ret,
                               ![t].was = cghost.latest[c.key],
                               ![t].before = cghost.recent,
                               ![t].isnew = ~Has(label_cache, c.key)]
    /\ UNCHANGED <<jobVars, sideVars, retryVars, poolVars, label_cache, clock>>

\* entry = _label_cache.get(cache_key); if not entry: return None
G_Lookup(t) ==
    /\ ct[t].pc = "lookup"
    /\ LET entry == Lookup(label_cache, ct[t].key) IN
       IF entry = None
       THEN ct' = [ct EXCEPT ![t].pc = "done", ![t].ret = None]
       ELSE ct' = [ct EXCEPT ![t].pc = "check", ![t].entry = entry]
    /\ UNCHANGED <<jobVars, sideVars, retryVars, poolVars, label_cache, cache_lock, clock, cghost>>

\* if now - timestamp > TTL: pop, return None; else move_to_end, return value
G_Check(t) ==
    /\ ct[t].pc = "check"
    /\ LET c == ct[t]
           e == c.entry[1]
           rest == SelectSeq(cghost.recent, LAMBDA k : k # c.key)
       IN  IF Expired(c.now, e.timestamp)
           THEN /\ label_cache' = Without(label_cache, c.key)
                /\ ct' = [ct EXCEPT ![t].pc = "done", ![t].ret = None]
                /\ cghost' = [cghost EXCEPT !.latest[c.key] = None,
                                            !.recent = rest]
           ELSE /\ label_cache' = MoveToEnd(label_cache, c.key)
                /\ ct' = [ct EXCEPT ![t].pc = "done", ![t].ret = Some(e.value)]
                /\ cghost' = [cghost EXCEPT !.recent = Append(rest, c.key)]
    /\ UNCHANGED <<jobVars, sideVars, retryVars, poolVars, cache_lock, clock>>

\* _label_cache[cache_key] = (value, now)
S_Store(t) ==
    /\ ct[t].pc = "store"
    /\ LET c == ct[t]
           rest == SelectSeq(cghost.recent, LAMBDA k : k # c.key)
       IN  /\ label_cache' = Store(label_cache, c.key, c.value, c.now)
           /\ cghost' = [cghost EXCEPT
                            !.latest[c.key] = Some([value |-> c.value,
                                                    time |-> c.now]),
                            !.recent = Append(rest, c.key)]
    /\ ct' = [ct EXCEPT ![t].pc = "move"]
    /\ UNCHANGED <<jobVars, sideVars, retryVars, poolVars, cache_lock, clock>>

\* _label_cache.move_to_end(cache_key)
S_Move(t) ==
    /\ ct[t].pc = "move"
    /\ label_cache' = MoveToEnd(label_cache, ct[t].key)
    /\ ct' = [ct EXCEPT ![t].pc = "evict"]
    /\ UNCHANGED <<jobVars, sideVars, retryVars, poolVars, cache_lock, clock, cghost>>

\* while len(_label_cache) > _LABEL_CACHE_MAX: popitem(last=False)
S_Evict(t) ==
    /\ ct[t].pc = "evict"
    /\ IF OverCapacity(label_cache)
       THEN LET gone == label_cache[1].key IN
            /\ label_cache' = PopFirst(label_cache)
            /\ cghost' = [cghost EXCEPT
                             !.victim = gone,
                             !.latest[gone] = None,
                             !.recent = SelectSeq(@, LAMBDA k : k # gone)]
            /\ UNCHANGED ct
       ELSE /\ ct' = [ct EXCEPT ![t].pc = "done"]
            /\ UNCHANGED <<label_cache, cghost>>
    /\ UNCHANGED <<jobVars, sideVars, retryVars, poolVars, cache_lock, clock>>

\* The `with` block is left, which releases the lock, and the call returns
\* to its caller.
C_Return(t) ==
    /\ ct[t].pc = "done"
    /\ ct' = [ct EXCEPT ![t] = NoCacheCall]
    /\ cache_lock' = None
    /\ UNCHANGED <<jobVars, sideVars, retryVars, poolVars, label_cache, clock, cghost>>

\* Time passes.
C_Tick ==
    /\ clock < MaxClock
    /\ clock' = clock + 1
    /\ UNCHANGED <<jobVars, sideVars, retryVars, poolVars, label_cache, cache_lock, ct, cghost>>

\* The steps of a call once begun.
CacheStep(t) ==
    \/ C_Lock(t)
    \/ G_Lookup(t)
    \/ G_Check(t)
    \/ S_Store(t)
    \/ S_Move(t)
    \/ S_Evict(t)
    \/ C_Return(t)

\* One caller, while time passes.
NextCache ==
    \/ \E k \in CacheKeys : C_Get("t1", k)
    \/ \E k \in CacheKeys, v \in CacheValues : C_Set("t1", k, v)
    \/ CacheStep("t1")
    \/ C_Tick

InitCache == InitRetry

SpecCache == InitCache /\ [][NextCache]_vars

\* Callers in several threads, at one instant.
NextCacheMT ==
    \/ \E t \in CacheThreads, k \in CacheKeys : C_Get(t, k)
    \/ \E t \in CacheThreads, k \in CacheKeys, v \in CacheValues :
          C_Set(t, k, v)
    \/ \E t \in CacheThreads : CacheStep(t)

SpecCacheMT == InitCache /\ [][NextCacheMT]_vars

\* ------------------------------------------------- _get_connection ------
\* A capacity test that admits one connection too many.
BelowCapacityOrAt(n) == n <= POOL_SIZE

\* if _pool_created < _POOL_SIZE
BelowCapacity(n) == n < POOL_SIZE

\* A get that hands out the last connection put and leaves it in the queue.
QueueKeep(q) == q

\* LifoQueue.get / get_nowait: the last connection put leaves the queue.
QueueGet(q) == SubSeq(q, 1, Len(q) - 1)

\* conn = _pool.get_nowait(); on queue.Empty the thread goes for _pool_lock
DB_Acquire(t) ==
    /\ pt[t].pc = "idle"
    /\ IF Len(pool.q) > 0
       THEN /\ pt' = [pt EXCEPT ![t] = [pc |-> "holding",
                                        conn |-> pool.q[Len(pool.q)]]]
            /\ pool' = [pool EXCEPT !.q = QueueGet(@)]
       ELSE /\ pt' = [pt EXCEPT ![t].pc = "lock"]
            /\ UNCHANGED pool
    /\ UNCHANGED <<jobVars, sideVars, retryVars, cacheVars>>

\* with _pool_lock: if _pool_created < _POOL_SIZE ... else ...
DB_Lock(t) ==
    /\ pt[t].pc = "lock"
    /\ pool.lock = None
    /\ pool' = [pool EXCEPT !.lock = Some(t)]
    /\ pt' = [pt EXCEPT ![t].pc = IF BelowCapacity(pool.created) THEN "create"
                                  ELSE "wait"]
    /\ UNCHANGED <<jobVars, sideVars, retryVars, cacheVars>>

\* conn = _create_connection(); when sqlite3.connect raises, the error
\* leaves the with block (releasing the lock) and _get_connection.
DB_Create(t) ==
    /\ pt[t].pc = "create"
    /\ \/ /\ pool' = [pool EXCEPT !.ever = @ + 1]
          /\ pt' = [pt EXCEPT ![t] = [pc |-> "count", conn |-> pool.ever + 1]]
       \/ /\ pool' = [pool EXCEPT !.lock = None]
          /\ pt' = [pt EXCEPT ![t] = NoConnection]
    /\ UNCHANGED <<jobVars, sideVars, retryVars, cacheVars>>

\* _pool_created += 1, the with block ends, yield conn
DB_Count(t) ==
    /\ pt[t].pc = "count"
    /\ pool' = [pool EXCEPT !.created = @ + 1, !.lock = None]
    /\ pt' = [pt EXCEPT ![t].pc = "holding"]
    /\ UNCHANGED <<jobVars, sideVars, retryVars, cacheVars>>

\* conn = _pool.get(), blocking with _pool_lock held; then yield conn
DB_Wait(t) ==
    /\ pt[t].pc = "wait"
    /\ Len(pool.q) > 0
    /\ pt' = [pt EXCEPT ![t] = [pc |-> "holding", conn |-> pool.q[Len(pool.q)]]]
    /\ pool' = [pool EXCEPT !.q = QueueGet(@), !.lock = None]
    /\ UNCHANGED <<jobVars, sideVars, retryVars, cacheVars>>

\* The statement run on the connection leaves it unusable.
DB_Break(t) ==
    /\ pt[t].pc = "holding"
    /\ pt[t].conn \notin pool.broken
    /\ pool' = [pool EXCEPT !.broken = @ \cup {pt[t].conn}]
    /\ UNCHANGED <<jobVars, sideVars, retryVars, cacheVars, pt>>

\* A release that has to take _pool_lock first.
PutUnderLock(l) == l = None

\* The finally block puts the connection back without taking _pool_lock.
CanPut(l) == TRUE

\* The ways the caller's with block ends.
ScopeExits == {"return", "raise"}

\* A cleanup that runs only when the block ends normally.
FinallyOnReturn(how) == how = "return"

\* try: yield conn / finally: the cleanup runs however the block ended.
RunsFinally(how) == TRUE

\* The caller's block ends; finally: _pool.put_nowait(conn); on queue.Full
\* conn.close().  The pool notes how the last block ended.
DB_Release(t) ==
    /\ pt[t].pc = "holding"
    /\ CanPut(pool.lock)
    /\ \E how \in ScopeExits :
          LET c == pt[t].conn
          IN  IF ~RunsFinally(how)
              THEN pool' = [pool EXCEPT !.exit = how]
              ELSE IF Len(pool.q) < POOL_SIZE
              THEN pool' = [pool EXCEPT !.q = Append(@, c), !.exit = how]
              ELSE pool' = [pool EXCEPT !.closed = @ \cup {c},
                                        !.exit = how]
    /\ pt' = [pt EXCEPT ![t] = NoConnection]
    /\ UNCHANGED <<jobVars, sideVars, retryVars, cacheVars>>

NextPool ==
    \E t \in PoolThreads :
        \/ DB_Acquire(t)
        \/ DB_Lock(t)
        \/ DB_Create(t)
        \/ DB_Count(t)
        \/ DB_Wait(t)
        \/ DB_Break(t)
        \/ DB_Release(t)

InitPool == InitRetry

SpecPool == InitPool /\ [][NextPool]_vars

\* The scheduling _get_connection runs under: a thread inside the with
\* block goes on (create, count), a caller leaves its with statement and so
\* releases, and a thread repeatedly offered _pool_lock or a queued
\* connection wins it in the end. Nothing makes a thread call
\* _get_connection, and nothing makes a connection break.
PoolFairness ==
    \A t \in PoolThreads :
        /\ WF_vars(DB_Create(t))
        /\ WF_vars(DB_Count(t))
        /\ WF_vars(DB_Release(t))
        /\ SF_vars(DB_Lock(t))
        /\ SF_vars(DB_Wait(t))

SpecPoolFair == InitPool /\ [][NextPool]_vars /\ PoolFairness

\* --------------------------------------------- resolve_labels calls ------
\* resolve_labels(qids, language) from its first lookup to its return; the
\* requests take time, so the clock can have moved on when it stores.
L_ResolveOver(lists, languages) ==
    \E qids \in lists, language \in languages,
       stored \in clock..Min(clock + 1, MaxClock) :
        LET run == resolve_labels_once(label_cache, qids, language, clock,
                                       stored)
        IN  /\ label_cache' = run.cache
            /\ clock' = stored
            /\ lr' = [pc |-> "returned", seq |-> 1 - lr.seq, qids |-> qids,
                      language |-> language, hits |-> run.hits,
                      calls |-> run.calls, result |-> run.result,
                      at |-> stored, again |-> None]
            /\ UNCHANGED <<jobVars, retryVars, poolVars, percentVars,
                           lockVars, cache_lock, ct, cghost>>

L_Resolve == L_ResolveOver(QidLists, LabelLanguages)

\* The same call again, at once: the clock reads what it read at the return.
L_Again ==
    /\ lr.pc = "returned"
    /\ clock = lr.at
    /\ LET run == resolve_labels_once(label_cache, lr.qids, lr.language,
                                      clock, clock)
       IN  /\ label_cache' = run.cache
           /\ lr' = [lr EXCEPT !.pc = "idle", !.again = Some(run.calls)]
    /\ UNCHANGED <<jobVars, retryVars, poolVars, percentVars, lockVars,
                   cache_lock, clock, ct, cghost>>

\* Time passes between calls.
L_Tick ==
    /\ clock < MaxClock
    /\ clock' = clock + 1
    /\ UNCHANGED <<jobVars, retryVars, poolVars, sideVars, label_cache,
                   cache_lock, ct, cghost>>

NextLabels == L_Resolve \/ L_Again \/ L_Tick

InitLabels == InitRetry

SpecLabels == InitLabels /\ [][NextLabels]_vars

\* Calls of resolve_labels for one identifier in either language.
L_ResolveLang == L_ResolveOver(SingleQids, BothLanguages)

NextLang == L_ResolveLang \/ L_Again \/ L_Tick

SpecLang == InitLabels /\ [][NextLang]_vars

\* ------------------------------------------------- _compute_percent ------
\* The values of total, processed and phase a job record can have: before
\* the listing is known (queued, fetching, a failed or cancelled fetch) and
\* after (the checking loop's hooks, finalizing, done, or cancelled there).
PercentRecords ==
    [total : {None}, processed : {0},
     phase : {"queued", "fetching", "error", "cancelled"}]
    \cup {r \in [total : {Some(n) : n \in 1..MaxTotal},
                 processed : 0..MaxTotal,
                 phase : {"checking", "finalizing", "done", "cancelled"}] :
             /\ r.processed <= r.total[1]
             /\ r.phase \in {"finalizing", "done"}
                    => r.processed = r.total[1]}

\* api_progress looks the record of the job up.
api_lookup ==
    /\ pjob = None
    /\ \E job \in PercentRecords : pjob' = Some(job)
    /\ UNCHANGED <<jobVars, retryVars, cacheVars, poolVars, labelVars,
                   lockVars, percent>>

\* "percent": _compute_percent(job), for the record looked up.
api_percent ==
    /\ pjob # None
    /\ percent = None
    /\ percent' = Some(compute_percent(pjob[1]))
    /\ UNCHANGED <<jobVars, retryVars, cacheVars, poolVars, labelVars,
                   lockVars, pjob>>

NextPercent == api_lookup \/ api_percent

InitPercent == InitRetry

SpecPercent == InitPercent /\ [][NextPercent]_vars

\* ------------------------------------------------- threads and locks -----
\* The holder of a lock.
Holder(l) ==
    CASE l = "analysis_lock" -> analysis_lock
      [] l = "_label_cache_lock" -> cache_lock
      [] OTHER -> pool.lock

\* The statement thread t is at, if its path has not ended.
Running(t) == th[t].ip <= Len(th[t].prog)
At(t) == th[t].prog[th[t].ip]

\* Lock l gets holder v; the other locks stay as they are.
SetHolder(l, v) ==
    /\ analysis_lock' = IF l = "analysis_lock" THEN v ELSE analysis_lock
    /\ cache_lock' = IF l = "_label_cache_lock" THEN v ELSE cache_lock
    /\ pool' = IF l = "_pool_lock" THEN [pool EXCEPT !.lock = v] ELSE pool

\* The thread starts on one of its code paths.
T_Start(t) ==
    /\ th[t] = NotStarted
    /\ \E prog \in Programs(t) : th' = [th EXCEPT ![t].prog = prog]
    /\ UNCHANGED <<jobVars, retryVars, percentVars, labelVars, cacheVars,
                   poolVars, analysis_lock>>

\* with lock: entered once the lock is free.
T_Acquire(t) ==
    /\ Running(t)
    /\ At(t).op = "acquire"
    /\ Holder(At(t).lock) = None
    /\ SetHolder(At(t).lock, Some(t))
    /\ th' = [th EXCEPT ![t].ip = @ + 1]
    /\ UNCHANGED <<jobVars, retryVars, percentVars, labelVars, label_cache,
                   clock, ct, cghost, pt>>

\* The with block is left.
T_Release(t) ==
    /\ Running(t)
    /\ At(t).op = "release"
    /\ SetHolder(At(t).lock, None)
    /\ th' = [th EXCEPT ![t].ip = @ + 1]
    /\ UNCHANGED <<jobVars, retryVars, percentVars, labelVars, label_cache,
                   clock, ct, cghost, pt>>

\* A statement that needs no lock taken: it runs, or the request, sleep or
\* blocking get the thread was suspended in comes back.
T_Step(t) ==
    /\ Running(t)
    /\ At(t).op \in {"local", "remote", "sleep", "get"}
    /\ th' = [th EXCEPT ![t].ip = @ + 1]
    /\ UNCHANGED <<jobVars, retryVars, percentVars, labelVars, cacheVars,
                   poolVars, analysis_lock>>

NextLocks ==
    \E t \in LockThreads :
        T_Start(t) \/ T_Acquire(t) \/ T_Release(t) \/ T_Step(t)

InitLocks == InitRetry

SpecLocks == InitLocks /\ [][NextLocks]_vars

\* ------------------------------------------------------------ claims -----
\* File names of the rows of the worker's category.
CatFiles(j) == {r.file_name : r \in CatRows(j)}

\* The first n files of the worker's listing.
Listed(j, n) == {files[j][m] : m \in 1..n}

\* C6: when cancel_job succeeds after item k is persisted and before the
\* cancellation check at the top of iteration k + 1, then from that moment
\* on the status is cancelled, processed is k, the category holds exactly
\* the rows of the first k listed files, no further item is checked, and
\* the worker does nothing more than observe the cancellation and stop.
C6_CancelBetweenItems ==
    \A j \in Started :
        (/\ cancel_at[j] # None
         /\ cancel_at[j][1].pc = "hook_check"
         /\ cancel_at[j][1].stage = "item"
         /\ cancel_at[j][1].idx >= 2)
        => LET k == cancel_at[j][1].idx - 1 IN
           /\ jobs[j].status = "cancelled"
           /\ jobs[j].processed = k
           /\ Cardinality(CatRows(j)) = k
           /\ CatFiles(j) = Listed(j, k)
           /\ Len(outcomes[j]) = k
           /\ pc[j] \in {"hook_check", "done"}

C6_Witness ==
    \E j \in Started :
        /\ Stopped(j)
        /\ cancel_at[j] # None
        /\ cancel_at[j][1] = [pc |-> "hook_check", stage |-> "item", idx |-> 2]
        /\ Len(files[j]) = MaxItems
        /\ jobs[j].status = "cancelled"
        /\ jobs[j].processed = 1
        /\ Cardinality(CatRows(j)) = 1

\* C7: a failure of one item's check or label resolution never aborts the
\* job: the item is stored with absent labels and a false flag, the rows of
\* the category are those of the items processed so far in listing order,
\* a run that is not cancelled processes every listed item, and the job's
\* error field stays unset.
C7_ItemFailureIsolated ==
    \A j \in Started :
        /\ Len(files[j]) > 0 =>
              /\ jobs[j].error = None
              /\ jobs[j].status # "error"
              /\ result[j].kind # "error"
        /\ \A k \in 1..Len(outcomes[j]) :
              outcomes[j][k] = "failed" =>
                 LET row == Row(files[j][k], wcat[j], None, FALSE) IN
                 IF k <= Persisted(j) THEN row \in db
                 ELSE pending[j] = Some(row)
        /\ pc[j] \notin {"idle", "run", "clear"} =>
              CatFiles(j) = Listed(j, Persisted(j))
        /\ (Stopped(j) /\ result[j].kind # "cancelled" /\ Len(files[j]) > 0) =>
              /\ Len(outcomes[j]) = Len(files[j])
              /\ result[j].kind = "ok"
        /\ jobs[j].status = "done" => result[j].kind = "ok"

C7_Witness ==
    \E j \in Started :
        /\ Stopped(j)
        /\ jobs[j].status = "done"
        /\ Len(files[j]) = MaxItems
        /\ outcomes[j][1] = "failed"
        /\ outcomes[j][2] = "with"
        /\ Row(files[j][1], wcat[j], None, FALSE) \in db
        /\ jobs[j].error = None

\* C8: for a job that ends done over n listed items, the statistics are
\* total = n, with = the number of items whose check returned identifiers
\* and whose check and resolution both succeeded, without = n - with, and
\* every failed item is stored with absent labels.
C8_FinalStatistics ==
    \A j \in Started :
        jobs[j].status = "done" =>
            LET n == Len(files[j])
                w == Cardinality({k \in 1..n : outcomes[j][k] = "with"})
            IN  /\ result[j].kind = "ok"
                /\ Len(outcomes[j]) = n
                /\ result[j].statistics =
                      [total |-> n, with_depicts |-> w,
                       without_depicts |-> n - w]
                /\ \A k \in 1..n :
                      outcomes[j][k] = "failed" =>
                         Row(files[j][k], wcat[j], None, FALSE) \in db

C8_Witness ==
    \E j \in Started :
        /\ jobs[j].status = "done"
        /\ outcomes[j] = <<"with", "without", "failed">>
        /\ netlog[j] = Some([call |-> "check_depicts",
                             calls |-> ITEM_MAX_RETRIES + 1,
                             sleeps |-> <<500, 1000>>])
        /\ result[j].statistics =
              [total |-> 3, with_depicts |-> 1, without_depicts |-> 2]

\* C9: when an analysis of a category that already has stored rows
\* completes, the category's rows are exactly one per file of the new
\* listing: no row of a file absent from the listing survives.
C9_RerunReplaces ==
    \A j \in Started :
        result[j].kind = "ok" =>
            /\ CatFiles(j) = Range(files[j])
            /\ Cardinality(CatRows(j)) = Len(files[j])
            /\ Len(result[j].files) = Len(files[j])

C9_Witness ==
    \E j \in Started :
        /\ Stopped(j)
        /\ jobs[j].status = "done"
        /\ stale[j]
        /\ Len(files[j]) < MaxItems
        /\ CatFiles(j) = Range(files[j])

\* C10: when the named category does not exist and the job gets as far as
\* asking for the listing, the fetch makes one remote
\* request and no retry or sleep, nothing is checked or stored, and the job
\* (unless it is cancelled) ends with status error, phase error and a
\* non-empty error.
C10_MissingCategory ==
    \A j \in Started :
        (~commons.exists /\ netlog[j] # None) =>
            /\ netlog[j] = Some([call |-> "fetch_category_files", calls |-> 1,
                                 sleeps |-> <<>>, requests |-> 1])
            /\ result[j].kind = "error"
            /\ result[j].error # ""
            /\ outcomes[j] = <<>>
            /\ CatRows(j) = {}
            /\ pc[j] \in {"final_check", "set_error", "done"}
            /\ (Stopped(j) /\ cancel_ok[j] = 0) =>
                  /\ jobs[j].status = "error"
                  /\ jobs[j].phase = "error"
                  /\ jobs[j].error = Some(result[j].error)

C10_Witness ==
    \E j \in Started :
        /\ Stopped(j)
        /\ ~commons.exists
        /\ jobs[j].status = "error"
        /\ jobs[j].error = Some("does not exist on Wikimedia Commons")
        /\ netlog[j][1].calls = 1

\* C11: when the category exists and has no member, then once the listing
\* has been asked for, analyze_category's result is an error with a
\* non-empty message ("No files found in category" when the first attempt's
\* two requests succeed), nothing is checked or stored for the category,
\* the status is never done, and the job (unless it is cancelled) ends with
\* status error and that message.
C11_EmptyCategory ==
    \A j \in Started :
        (commons.exists /\ commons.members = <<>> /\ netlog[j] # None) =>
            /\ result[j].kind = "error"
            /\ result[j].error # ""
            /\ (netlog[j][1].calls = 1 /\ netlog[j][1].requests = 2) =>
                  result[j].error = "No files found in category"
            /\ jobs[j].status # "done"
            /\ outcomes[j] = <<>>
            /\ CatRows(j) = {}
            /\ (Stopped(j) /\ cancel_ok[j] = 0) =>
                  /\ jobs[j].status = "error"
                  /\ jobs[j].phase = "error"
                  /\ jobs[j].error = Some(result[j].error)

C11_Witness ==
    \E j \in Started :
        /\ Stopped(j)
        /\ commons.exists
        /\ commons.members = <<>>
        /\ jobs[j].status = "error"
        /\ jobs[j].error = Some("No files found in category")
        /\ CatRows(j) = {}

\* C12: when listing an existing, non-empty category ends in an error, the
\* retry ceiling was exhausted: the fetch was invoked FETCH_MAX_RETRIES + 1
\* times with the backoff sleeps in between.
C12_FetchRetried ==
    \A j \in Started :
        (/\ commons.exists
         /\ Len(commons.members) > 0
         /\ netlog[j] # None
         /\ netlog[j][1].call = "fetch_category_files"
         /\ result[j].kind = "error")
        => /\ netlog[j][1].calls = FETCH_MAX_RETRIES + 1
           /\ netlog[j][1].sleeps = <<1000, 2000, 4000>>

\* The invocations and sleeps of a call whose first k attempts raise a
\* transport error and whose attempt k + 1 ends it with `last`: an
\* invocation, then for each failure a sleep of base_delay * 2^0,
\* base_delay * 2^1, ... followed by the next invocation.
ExpectedTrace(base_delay, k, last) ==
    [i \in 1..(2 * k + 1) |->
        IF i % 2 = 1
        THEN [ev |-> "call",
              arg |-> IF i = 2 * k + 1 THEN last ELSE "RequestException"]
        ELSE [ev |-> "sleep", arg |-> base_delay * (2 ^ ((i \div 2) - 1))]]

IsPrefix(t, e) == Len(t) <= Len(e) /\ t = SubSeq(e, 1, Len(t))

\* The wrapped function raises a transport error on its first k attempts
\* and does `last` on attempt k + 1.
FailsThen(r, k, last) ==
    /\ k <= r.max_retries
    /\ \A i \in 1..k : r.results[i] = "RequestException"
    /\ r.results[k + 1] = last

\* C13: a wrapped function that fails transiently exactly k times
\* (0 <= k <= max_retries) and then succeeds is invoked k + 1 times with
\* sleeps of base_delay * 2^0 .. base_delay * 2^(k-1) between consecutive
\* invocations, in that order, and the wrapper returns the value of
\* invocation k + 1 and never raises.
C13_RetryThenSuccess ==
    \A k \in 0..MaxRetries :
        (rt.pc # "idle" /\ FailsThen(rt, k, "value")) =>
            LET e == ExpectedTrace(rt.base_delay, k, "value") IN
            /\ IsPrefix(rt.trace, e)
            /\ rt.pc # "raised"
            /\ rt.pc = "returned" =>
                  /\ rt.trace = e
                  /\ rt.ret = Some([kind |-> "value", attempt |-> k])

C13_Witness ==
    /\ rt.pc = "returned"
    /\ rt.max_retries = MaxRetries
    /\ FailsThen(rt, MaxRetries, "value")
    /\ Len(rt.trace) = 2 * MaxRetries + 1

\* C14: a wrapped function that fails transiently on every attempt is
\* invoked max_retries + 1 times with max_retries sleeps, none after the
\* last invocation, and the wrapper then raises the error of the last
\* invocation.
C14_RetryExhausted ==
    (rt.pc # "idle" /\ FailsThen(rt, rt.max_retries, "RequestException")) =>
        LET e == ExpectedTrace(rt.base_delay, rt.max_retries,
                               "RequestException")
        IN  /\ IsPrefix(rt.trace, e)
            /\ rt.pc # "returned"
            /\ rt.pc = "raised" =>
                  /\ rt.trace = e
                  /\ rt.ret = Some([kind |-> "RequestException",
                                    attempt |-> rt.max_retries])

C14_Witness ==
    /\ rt.pc = "raised"
    /\ rt.max_retries = MaxRetries
    /\ FailsThen(rt, MaxRetries, "RequestException")
    /\ rt.trace[Len(rt.trace)].ev = "call"
    /\ Len(rt.trace) = 2 * MaxRetries + 1

\* C15: an error that is not a transport error propagates from the
\* invocation that raised it: that invocation is the last event of the
\* call, no sleep follows it, and the wrapper raises that very error, also
\* when earlier attempts failed transiently.
C15_NonTransientPropagates ==
    \A k \in 0..MaxRetries :
        (rt.pc # "idle" /\ FailsThen(rt, k, "ValueError")) =>
            LET e == ExpectedTrace(rt.base_delay, k, "ValueError") IN
            /\ IsPrefix(rt.trace, e)
            /\ rt.pc # "returned"
            /\ rt.pc = "raised" =>
                  /\ rt.trace = e
                  /\ rt.ret = Some([kind |-> "ValueError", attempt |-> k])

C15_Witness ==
    /\ rt.pc = "raised"
    /\ rt.max_retries >= 2
    /\ FailsThen(rt, 1, "ValueError")
    /\ rt.ret = Some([kind |-> "ValueError", attempt |-> 1])
    /\ Len(rt.trace) = 3

\* C16: a get whose key has a latest set that was neither evicted nor purged
\* returns that set's value when issued at most the TTL after it, and
\* returns absent and removes the entry when issued more than the TTL
\* after it; a get of a key with no such set returns absent.
C16_GetWithinTTL ==
    \A t \in CacheThreads :
        (ct[t].pc = "done" /\ ct[t].op = "get") =>
            LET c == ct[t] IN
            /\ c.was = None => c.ret = None
            /\ (c.was # None /\ c.now - c.was[1].time <= LABEL_CACHE_TTL) =>
                  /\ c.ret = Some(c.was[1].value)
                  /\ Has(label_cache, c.key)
            /\ (c.was # None /\ c.now - c.was[1].time > LABEL_CACHE_TTL) =>
                  /\ c.ret = None
                  /\ ~Has(label_cache, c.key)

C16_Witness ==
    \E t \in CacheThreads :
        /\ ct[t].pc = "done"
        /\ ct[t].op = "get"
        /\ ct[t].was # None
        /\ ct[t].now - ct[t].was[1].time = LABEL_CACHE_TTL + 1
        /\ ct[t].ret = None
        /\ ~Has(label_cache, ct[t].key)
        /\ Len(label_cache) = LABEL_CACHE_MAX - 1

\* C17: between calls the cache holds its keys in the order of their last
\* touch by a get that found them or by a set; a set of a new key into a
\* full cache removes the least recently touched key and no other, and any
\* other set removes nothing.
C17_EvictsLeastRecent ==
    /\ cache_lock = None => KeysOf(label_cache) = cghost.recent
    /\ \A t \in CacheThreads :
          (ct[t].pc = "done" /\ ct[t].op = "set") =>
              LET c == ct[t]
                  rest == SelectSeq(c.before, LAMBDA k : k # c.key)
              IN  IF c.key \notin Range(c.before)
                     /\ Len(c.before) = LABEL_CACHE_MAX
                  THEN /\ KeysOf(label_cache) = Append(Tail(c.before), c.key)
                       /\ cghost.victim = Head(c.before)
                  ELSE KeysOf(label_cache) = Append(rest, c.key)

C17_Witness ==
    \E t \in CacheThreads :
        /\ ct[t].pc = "done"
        /\ ct[t].op = "set"
        /\ ct[t].key = 4
        /\ ct[t].before = <<2, 3, 1>>
        /\ \A i \in 1..Len(label_cache) : label_cache[i].timestamp = 0
        /\ clock = 0
        /\ KeysOf(label_cache) = <<3, 1, 4>>
        /\ cghost.victim = 2

\* C18: with callers in several threads the cache never holds more than
\* _LABEL_CACHE_MAX entries once a call has finished its work (one more
\* only inside a set, under the lock), and a set of a key already present
\* leaves the set of keys as it was.
C18_CacheBounded ==
    /\ Len(label_cache) <= LABEL_CACHE_MAX + 1
    /\ (cache_lock = None \/ \E t \in CacheThreads : ct[t].pc = "done") =>
          Len(label_cache) <= LABEL_CACHE_MAX
    /\ \A t \in CacheThreads :
          (/\ ct[t].op = "set"
           /\ ct[t].pc \in {"move", "evict", "done"}
           /\ ~ct[t].isnew)
          => /\ Len(label_cache) <= LABEL_CACHE_MAX
             /\ Range(KeysOf(label_cache)) = Range(ct[t].before)

C18_Witness ==
    /\ ct["t2"].pc = "done"
    /\ ct["t2"].op = "set"
    /\ ct["t2"].isnew
    /\ Len(ct["t2"].before) = LABEL_CACHE_MAX
    /\ Len(label_cache) = LABEL_CACHE_MAX
    /\ cghost.victim = Head(ct["t2"].before)
    /\ ct["t1"].pc = "lock"

\* C19: with callers in several threads, whenever no call is in the middle
\* of its work the cache (entries and order) is the one obtained by running
\* the calls one at a time in the order they took the lock, every call
\* returns what it returns in that order, and a get that returns a value
\* returns the value of the latest set of its key in that order.
C19_CacheAtomic ==
    /\ cache_lock = None => label_cache = cghost.shadow
    /\ \A t \in CacheThreads :
          ct[t].pc = "done" =>
              /\ label_cache = cghost.shadow
              /\ ct[t].ret = ct[t].expect
              /\ (ct[t].op = "get" /\ ct[t].ret # None) =>
                    /\ ct[t].was # None
                    /\ ct[t].ret = Some(ct[t].was[1].value)

C19_Witness ==
    /\ ct["t1"].pc = "done"
    /\ ct["t1"].op = "get"
    /\ ct["t1"].ret = Some("b")
    /\ ct["t2"].pc = "lock"
    /\ ct["t2"].op = "set"
    /\ ct["t2"].key = ct["t1"].key
    /\ ct["t2"].value = "a"
    /\ Len(label_cache) = LABEL_CACHE_MAX

\* C20: the pool never creates more than _POOL_SIZE connections, whatever
\* the threads do and also after unusable connections were released; its
\* counter never runs ahead of the connections made.
C20_PoolBounded ==
    /\ pool.ever <= POOL_SIZE
    /\ pool.created <= pool.ever
    /\ pool.ever <= pool.created + 1

C20_Witness ==
    /\ pool.ever = POOL_SIZE
    /\ pool.broken = 1..POOL_SIZE
    /\ Len(pool.q) >= 1
    /\ pool.q[1] \in pool.broken
    /\ \E t \in PoolThreads : pt[t].pc = "wait"

\* The threads whose local conn is connection c, from the statement that
\* bound it to the end of the finally block.
Holders(c) == {t \in PoolThreads : pt[t].pc \in {"count", "holding"}
                                  /\ pt[t].conn = c}

\* C21: between acquisition and release a pooled connection has one owner:
\* no two threads hold the same connection, no connection is both idle in
\* the queue and held by a thread, and no connection is queued twice.
C21_SingleOwner ==
    \A c \in 1..pool.ever :
        /\ Cardinality(Holders(c)) <= 1
        /\ Cardinality({i \in 1..Len(pool.q) : pool.q[i] = c}) <= 1
        /\ ~(Holders(c) # {} /\ c \in Range(pool.q))

\* Every connection has been made; one is held while another, handed back
\* by its holder, is idle, and a further thread is inside _get_connection.
C21_Witness ==
    /\ pool.created = POOL_SIZE
    /\ Len(pool.q) = 1
    /\ \E t \in PoolThreads : /\ pt[t].pc = "holding"
                               /\ pt[t].conn # pool.q[1]
    /\ \E t \in PoolThreads : pt[t].pc = "lock"

\* Every connection the pool may make is held by a caller.
AllHeld == Cardinality({t \in PoolThreads : pt[t].pc = "holding"}) = POOL_SIZE

\* Thread t is inside _get_connection, past get_nowait, with the pool at
\* capacity: only a release can give it a connection.
Blocked(t) == pt[t].pc \in {"lock", "wait"} /\ pool.created = POOL_SIZE

\* No step taken while every connection is held gives a caller a connection
\* or makes one.
NoGrantWhileAllHeld ==
    AllHeld =>
        /\ \A t \in PoolThreads :
               pt'[t].pc \in {"count", "holding"} => pt[t].pc = "holding"
        /\ pool'.ever = pool.ever
        /\ pool'.created = pool.created

ReleasesBroken(t) ==
    /\ pt[t].pc = "holding"
    /\ pt[t].conn \in pool.broken
    /\ pt'[t].pc = "idle"

\* C23: a connection found unhealthy on release is discarded, not put back
\* in the idle queue, and the count of created connections goes down by one
\* so that a later acquire can make a replacement.
C23_UnhealthyDiscarded ==
    [][\A t \in PoolThreads :
          ReleasesBroken(t) =>
              /\ pt[t].conn \notin Range(pool'.q)
              /\ pool'.created = pool.created - 1]_vars

\* C24: whenever a job's total is known, 0 <= processed <= total; and a job
\* marked done has a known total and processed = total.
C24_ProcessedWithinTotal ==
    \A j \in JobIds :
        jobs[j] # NoJob =>
            /\ jobs[j].total # None =>
                   /\ 0 <= jobs[j].processed
                   /\ jobs[j].processed <= jobs[j].total[1]
            /\ jobs[j].status = "done" =>
                   /\ jobs[j].total # None
                   /\ jobs[j].processed = jobs[j].total[1]

\* A job over a listing of MaxItems files is marked done, and the last item
\* was one whose check failed.
C24_Witness ==
    \E j \in Started :
        /\ jobs[j] # NoJob
        /\ jobs[j].status = "done"
        /\ jobs[j].total = Some(MaxItems)
        /\ jobs[j].processed = MaxItems
        /\ outcomes[j][MaxItems] = "failed"

\* C25: the percent of a record is min(100, floor(100 * processed / total))
\* when total is known and positive; with total unknown it is 5 in phase
\* fetching, 95 in phase finalizing and 0 otherwise; it is always an
\* integer in 0..100.
C25_PercentFormula ==
    (pjob # None /\ percent # None) =>
        LET job == pjob[1] IN
        /\ percent[1] \in 0..100
        /\ percent[1] =
               IF job.total # None /\ job.total[1] > 0
               THEN Min(100, (100 * job.processed) \div job.total[1])
               ELSE IF job.phase = "fetching" THEN 5
               ELSE IF job.phase = "finalizing" THEN 95
               ELSE 0

\* C26: over the life of a job, from queued to its terminal status, the
\* percent computed from successive values of its record never decreases.
C26_PercentForward ==
    [][\A j \in JobIds :
          (jobs[j] # NoJob /\ jobs'[j] # NoJob) =>
              compute_percent(jobs'[j]) >= compute_percent(jobs[j])]_vars

\* C27: at every moment of the checking phase the record's processed is at
\* most the number of the job's items whose row has been inserted.
C27_ProcessedAfterItem ==
    \A j \in Started :
        (jobs[j] # NoJob /\ jobs[j].phase = "checking") =>
            jobs[j].processed <= Persisted(j)

\* What the loop over a listing does when it runs to the end: each file in
\* listing order is checked, then inserted, before the next is checked.
LoopTrace(fs) ==
    [n \in 1..(2 * Len(fs)) |->
        IF n % 2 = 1 THEN <<"check", fs[(n + 1) \div 2]>>
        ELSE <<"insert", fs[n \div 2]>>]

\* C28: within a job the items are checked and inserted one at a time in
\* listing order (the check of item i+1 starts only after item i's insert,
\* and a checked result waits for its insert only while no other check of
\* the job runs), whatever another job does in between.
C28_Sequential ==
    \A j \in JobIds :
        /\ IsPrefix(hist[j], LoopTrace(files[j]))
        /\ pending[j] # None <=> Len(hist[j]) % 2 = 1
        /\ pc[j] = "check" => Len(hist[j]) = 2 * (idx[j] - 1)

\* Two jobs over the same two-file listing are both inside their loops, one
\* about to insert its second item while the other has its first item's
\* result in hand.
C28_Witness ==
    /\ commons.members = <<1, 2>>
    /\ hist["j1"] = <<<<"check", 1>>, <<"insert", 1>>, <<"check", 2>>>>
    /\ hist["j2"] = <<<<"check", 1>>>>
    /\ pc["j1"] = "insert"
    /\ pc["j2"] = "insert"

\* C29: the list the fetch phase hands to the checking phase is the
\* category's members, every page's items once and in listing order, also
\* when an attempt failed on a later page and the call was retried.
C29_AllPagesOnce ==
    \A j \in Started :
        stage[j] \in {"checking", "item", "finalizing"} =>
            /\ netlog[j] # None
            /\ commons.exists
            /\ files[j] = commons.members

\* A listing of two pages was fetched in two invocations: the first failed
\* on its second page (its third request), the second made all three of
\* its requests.
C29_Witness ==
    \E j \in Started :
        /\ stage[j] = "checking"
        /\ Len(commons.members) = PageLimit + 1
        /\ files[j] = commons.members
        /\ netlog[j] # None
        /\ netlog[j][1].call = "fetch_category_files"
        /\ netlog[j][1].calls = 2
        /\ netlog[j][1].requests = 6

\* Identifier q has an entry for the language in cache c that has not
\* outlived the TTL at time now.
CachedUnexpired(c, q, language, now) ==
    \E i \in 1..Len(c) :
        /\ c[i].key = CacheKey(q, language)
        /\ now - c[i].timestamp <= LABEL_CACHE_TTL

\* The identifiers a sequence of requests asks for.
Asked(calls) == UNION {Range(calls[b]) : b \in 1..Len(calls)}

\* A step that is one call of resolve_labels, from first lookup to return.
ResolveStep == lr'.seq # lr.seq

\* A step that is the same call made again at once.
AgainStep == lr.pc = "returned" /\ lr'.pc = "idle"

C31_LanguageInKey ==
    [][(ResolveStep \/ AgainStep) =>
          LET L1 == lr'.language
              qs == lr'.qids
          IN  /\ \A i \in 1..Len(qs) :
                     lr'.result[qs[i]] = Some(LabelOf(qs[i], L1))
              /\ \A q \in QIDs, L2 \in BothLanguages \ {L1} :
                     \/ Lookup(label_cache', CacheKey(q, L2)) =
                            Lookup(label_cache, CacheKey(q, L2))
                     \/ /\ Lookup(label_cache', CacheKey(q, L2)) = None
                        /\ Len(label_cache') = LABEL_CACHE_MAX
                        /\ label_cache'[Len(label_cache')].timestamp = clock'
              /\ \A q \in QIDs, L \in BothLanguages :
                     Lookup(label_cache', CacheKey(q, L)) # None =>
                         Lookup(label_cache', CacheKey(q, L))[1].value =
                             LabelOf(q, L)]_vars

\* Q1 was resolved in French and then in English: the second call asked the
\* remote service, returned the English label, and both entries are cached.
C31_Witness ==
    /\ lr.qids = <<"Q1">>
    /\ lr.language = "en"
    /\ lr.calls = <<<<"Q1">>>>
    /\ lr.result["Q1"] = Some(<<"Q1", "en">>)
    /\ Lookup(label_cache, "Q1:fr") # None
    /\ Lookup(label_cache, "Q1:fr")[1].value = <<"Q1", "fr">>
    /\ Lookup(label_cache, "Q1:en") # None

\* C32: when a get has found its key (a hit), the entry is the most
\* recently used one of the cache and its timestamp is the time of the hit.
C32_HitRefreshes ==
    \A t \in CacheThreads :
        (ct[t].pc = "done" /\ ct[t].op = "get" /\ ct[t].ret # None) =>
            LET last == label_cache[Len(label_cache)] IN
            /\ last.key = ct[t].key
            /\ last.timestamp = ct[t].now

\* No caller is inside _get_connection or its with block.
Quiescent == \A t \in PoolThreads : pt[t].pc = "idle"

\* C33: the connection of a caller whose with block ends, normally or by an
\* exception, goes back to the idle queue in that step (or is closed when
\* the queue is full); so whenever no caller is inside a scope the idle
\* queue holds every connection made and not closed, each once.
C33_ScopedRelease ==
    [][/\ \A t \in PoolThreads :
              (pt[t].pc = "holding" /\ pt'[t].pc = "idle") =>
                  \/ pool'.q = Append(pool.q, pt[t].conn)
                  \/ /\ pool'.closed = pool.closed \cup {pt[t].conn}
                     /\ pool'.q = pool.q
       /\ Quiescent' =>
              /\ Len(pool'.q) = pool'.ever - Cardinality(pool'.closed)
              /\ Range(pool'.q) = (1..pool'.ever) \ pool'.closed
              /\ pool'.created = pool'.ever]_vars

\* Every connection was made, the last block to end did so by an
\* exception, and all connections are idle again with no caller left.
C33_Witness ==
    /\ Quiescent
    /\ pool.ever = POOL_SIZE
    /\ pool.exit = "raise"
    /\ Len(pool.q) = POOL_SIZE

\* The locks thread t holds.
Held(t) == {l \in LockNames : Holder(l) = Some(t)}

\* Thread t waits for a lock that thread u holds.
WaitsFor(t, u) ==
    /\ Running(t)
    /\ At(t).op = "acquire"
    /\ Holder(At(t).lock) = Some(u)

\* C34: no thread holds more than one of analysis_lock, _label_cache_lock
\* and _pool_lock at a time; no thread waits for a lock it holds and no two
\* threads wait for each other.
C34_OneLockAtATime ==
    /\ \A t \in LockThreads : Cardinality(Held(t)) <= 1
    /\ \A t, u \in LockThreads : ~(WaitsFor(t, u) /\ WaitsFor(u, t))

\* Two locks are held at once, by different threads: the worker waits in
\* _pool.get() with _pool_lock while the other thread is inside
\* analysis_lock.
C34_Witness ==
    /\ Running("worker")
    /\ At("worker") = PoolGet
    /\ Held("worker") = {"_pool_lock"}
    /\ Held("other") = {"analysis_lock"}

\* Thread t is suspended: in a remote call, in a backoff sleep or in the
\* blocking get of the pool.
Suspended(t) == Running(t) /\ At(t).op \in {"remote", "sleep", "get"}

\* C35: a thread suspended in a remote call, a backoff sleep or a blocking
\* pool acquire holds neither analysis_lock nor _label_cache_lock; so a
\* thread that waits for one of these two locks never waits for a
\* suspended thread.
C35_NoLockWhileSuspended ==
    /\ \A t \in LockThreads :
           Suspended(t) =>
               Held(t) \cap {"analysis_lock", "_label_cache_lock"} = {}
    /\ \A t, u \in LockThreads :
           (WaitsFor(t, u) /\ At(t).lock # "_pool_lock") => ~Suspended(u)

\* While the worker sleeps between two attempts of resolve_labels, the
\* other thread, a request, is inside analysis_lock.
C35_Witness ==
    /\ Running("worker")
    /\ At("worker") = Sleep
    /\ th["worker"].ip > 1
    /\ th["worker"].prog[th["worker"].ip - 2] = Release("_label_cache_lock")
    /\ th["other"].prog = SetJobSteps
    /\ Held("other") = {"analysis_lock"}

\* C36: a job that was started reaches a terminal status (done, error or
\* cancelled), every remote call and every statement on the database
\* returning or raising.
C36_JobTerminates ==
    \A j \in Started :
        (jobs[j] # NoJob) ~> (jobs[j].status \in Terminal)

\* C37: a record's terminal status and its phase agree: done with phase
\* done, error with phase error and an error text, cancelled with phase
\* cancelled; and only a record of status error has an error text.
C37_StatusPhaseAgree ==
    \A j \in JobIds :
        jobs[j] # NoJob =>
            /\ jobs[j].status \in Terminal => jobs[j].phase = jobs[j].status
            /\ jobs[j].status = "error" => jobs[j].error # None
            /\ jobs[j].error # None => jobs[j].status = "error"

\* C38: of two jobs analysing the same category at once, each one that ends
\* done returns statistics and rows that cover exactly the files it listed:
\* total is their number and there is one row for each.
C38_ConcurrentSameCategory ==
    \A j \in JobIds :
        (jobs[j] # NoJob /\ jobs[j].status = "done") =>
            /\ result[j].kind = "ok"
            /\ result[j].statistics.total = Len(files[j])
            /\ {result[j].files[k].file_name :
                    k \in 1..Len(result[j].files)} = Range(files[j])

\* C39: once the fetch of a job has failed (category not found, no files, or
\* retries exhausted), the job being the only one at work, the table holds
\* no row of the job's category, whatever an earlier analysis had stored;
\* the rows of other categories are still there.
C39_ClearedBeforeFetch ==
    \A j \in Started :
        result[j].kind = "error" =>
            /\ CatRows(j) = {}
            /\ Row(1, OtherCategory, None, FALSE) \in db

\* The fetch gave up after its retries, the job ended in error, and the
\* clear at the start had deleted rows of an earlier analysis.
C39_Witness ==
    \E j \in Started :
        /\ jobs[j].status = "error"
        /\ result[j].kind = "error"
        /\ result[j].error = "Failed to fetch category"
        /\ netlog[j][1].calls = FETCH_MAX_RETRIES + 1
        /\ stale[j]
        /\ CatRows(j) = {}

====
